---- MODULE Spec2Model ----
(***************************************************************************)
(* Cinnarito: the Redis-backed game state repository, the player resource  *)
(* service, the growth engine and the action coordinator (HTTP routes and  *)
(* GameServiceIntegration).                                                *)
(*                                                                         *)
(* Numbers.  totalGrowth and growthContributed are kept in hundredths      *)
(* (GrowthScale), cinnamon and totalContributions in tenths                *)
(* (CinnamonScale), so that 1.5, 0.1 and the 2-decimal rounding are exact  *)
(* integers.  Times are epoch milliseconds.                                *)
(*                                                                         *)
(* Calls.  A service call is an operator from a world (the key-value store *)
(* and the id source) to the SET of its possible outcomes: every           *)
(* `await redis.*` may throw while faultsLeft > 0, and withRetry re-runs its *)
(* operation as the code does.  The concurrent specifications split the    *)
(* same handlers at their awaits instead.                                  *)
(***************************************************************************)
EXTENDS Integers, Sequences, FiniteSets, TLC

VARIABLES
  redis,      \* the key-value store: one field per REDIS_KEYS pattern
  nextId,     \* source of generateActionId tokens
  now,        \* Date.now()
  faultsLeft, \* how many more store operations may throw
  last,       \* the last call made and its result
  cdSet,      \* per (user, subreddit): the last setActionCooldown, <<t, d>>
  done,       \* per subreddit: successful recordAction calls by action type
  steps,      \* number of calls made so far
  limit,      \* number of calls this specification explores
  reqs,       \* in-flight requests of the concurrent specifications
  scheduler,  \* the fields of the ChronicleScheduler and the timers it armed
  client      \* the cache of a polling client (useGameState's cacheRef)

vars == <<redis, nextId, now, faultsLeft, last, cdSet, done, steps, limit, reqs,
          scheduler, client>>

----------------------------------------------------------------------------
(* Configuration: shared constants (GAME_CONFIG) and service constants.    *)

GrowthScale == 100
CinnamonScale == 10

PLANT_SEED == 5
FEED_SPIRIT == 3
CHARGE_ROBOT == 10
POST_UPDATE == 0

STARTING_CINNAMON == 10
DAILY_BONUS == 5
MAX_CINNAMON == 10000

maxRetries == 3
retryDelay == 1000
checkInterval == 60000
REDIS_CONNECTION_ERROR == "Database connection error"
GROWTH_CALCULATION_ERROR == "Growth calculation error"
HISTORY_CAP == 1000
ACTION_COOLDOWN_MS == 60000
POST_COOLDOWN_MS == 300000
ONE_HOUR_MS == 3600000
DAY_MS == 86400000

\* growth = seeds * 1.5 + fed * 2 + charged * 3 + upvotes * 0.1, in thousandths
GROWTH_MULTIPLIERS ==
  [SEEDS_PLANTED |-> 1500, SPIRITS_FED |-> 2000, ROBOT_CHARGED |-> 3000,
   REDDIT_UPVOTES |-> 100]

\* Object.values(GAME_CONFIG.TREE_LEVELS), in insertion order
TREE_LEVELS ==
  << [level |-> 1, growthRequired |-> 0 * GrowthScale],
     [level |-> 2, growthRequired |-> 50 * GrowthScale],
     [level |-> 3, growthRequired |-> 150 * GrowthScale],
     [level |-> 4, growthRequired |-> 300 * GrowthScale],
     [level |-> 5, growthRequired |-> 500 * GrowthScale],
     [level |-> 6, growthRequired |-> 1000 * GrowthScale] >>

Users == {"alice", "bob"}
Subs == {"testsub", "othersub"}
ActionTypes == {"plant", "feed", "charge", "post"}
PlayerKeys == Users \X Subs

----------------------------------------------------------------------------
(* Values: null | T is the empty or the one-element sequence.              *)

None == <<>>
Some(x) == <<x>>

\* Number.prototype.toString() of a non-negative integer: its decimal digits
RECURSIVE toString(_)
toString(n) == IF n < 10 THEN <<n>> ELSE Append(toString(n \div 10), n % 10)

\* parseInt of a digit string
RECURSIVE parseInt(_)
parseInt(str) ==
  IF Len(str) = 1 THEN str[1]
  ELSE 10 * parseInt(SubSeq(str, 1, Len(str) - 1)) + str[Len(str)]

\* {...current, ...updates}: the fields of updates override those of current
Spread(current, updates) ==
  [f \in DOMAIN current |-> IF f \in DOMAIN updates THEN updates[f] ELSE current[f]]

\* the type guards of shared/types: each listed field is there with its type
isGameState(obj) ==
  {"subredditName", "treeLevel", "totalGrowth", "seedsPlanted", "spiritsFed",
   "robotCharged", "dailyUpvotes"} \subseteq DOMAIN obj

isPlayerResources(obj) ==
  {"username", "subredditName", "cinnamon", "seeds", "energy",
   "totalContributions"} \subseteq DOMAIN obj

----------------------------------------------------------------------------
(* Outcomes of a call, the store primitives and the retry wrapper.         *)

\* msg: the message of a thrown Error, as the parts that ': ' joins
Ok(w, v) == {[w |-> w, ok |-> TRUE, val |-> <<v>>, err |-> "", msg |-> <<>>]}
Throw(w, e) == {[w |-> w, ok |-> FALSE, val |-> <<>>, err |-> e, msg |-> <<e>>]}

\* `const x = await f(); rest(x)`: a rejected await propagates to the caller
\* (every `await` of RedisGameService.ts and RedditPostingService.ts)
Await(S, rest(_)) ==
  UNION { IF o.ok THEN rest(o) ELSE {o} : o \in S }

\* the trace of a call: the store operations it attempted and the backoff
\* delays it slept, kept by the specifications that look at it
Logged(w, event) ==
  IF "log" \in DOMAIN w THEN [w EXCEPT !.log = Append(@, event)] ELSE w

StoreEvent(op, field, key, ok) ==
  [ev |-> op, field |-> field, key |-> key, ok |-> ok, ms |-> 0]

WaitEvent(ms) == [ev |-> "wait", field |-> "", key |-> "", ok |-> TRUE, ms |-> ms]

\* a store operation that throws has no effect on the store
StoreFault(w) ==
  IF w.faults > 0 THEN Throw([w EXCEPT !.faults = @ - 1], "StoreUnavailable")
  ELSE {}

redisGet(w, field, key) ==
  Ok(Logged(w, StoreEvent("get", field, key, TRUE)), w.kv[field][key])
    \cup StoreFault(Logged(w, StoreEvent("get", field, key, FALSE)))

redisSet(w, field, key, value) ==
  Ok(Logged([w EXCEPT !.kv[field][key] = value],
            StoreEvent("set", field, key, TRUE)), TRUE)
    \cup StoreFault(Logged(w, StoreEvent("set", field, key, FALSE)))

redisDel(w, field, key) ==
  Ok(Logged([w EXCEPT !.kv[field][key] = None],
            StoreEvent("del", field, key, TRUE)), TRUE)
    \cup StoreFault(Logged(w, StoreEvent("del", field, key, FALSE)))

\* the same delay before every retry
backoffDelayFixed(attempt) == retryDelay

\* this.retryDelay * Math.pow(2, attempt - 1)
backoffDelay(attempt) == retryDelay * 2 ^ (attempt - 1)

\* RedisGameService.ts:345-365, RedditPostingService.ts:634-654 and
\* unnamed/part_002:312-332, all the same loop:
\* for (attempt = 1; attempt <= maxRetries; attempt++) try { return op() } ...
\* with the delay slept after every failure but the last, and the last error
\* thrown again under the service's prefix
RECURSIVE withRetryFrom(_, _, _, _)
withRetryFrom(prefix, operation(_), w, attempt) ==
  UNION { IF o.ok THEN {o}
          ELSE IF attempt = maxRetries
               THEN {[o EXCEPT !.msg = <<prefix>> \o @]}
          ELSE withRetryFrom(prefix, operation,
                             Logged(o.w, WaitEvent(backoffDelay(attempt))),
                             attempt + 1) : o \in operation(w) }

\* withRetry of RedisGameService and of PlayerResourceService
withRetry(operation(_), w) ==
  withRetryFrom(REDIS_CONNECTION_ERROR, operation, w, 1)

\* withRetry of GrowthCalculationService
growthWithRetry(operation(_), w) ==
  withRetryFrom(GROWTH_CALCULATION_ERROR, operation, w, 1)

----------------------------------------------------------------------------
(* Growth engine.                                                          *)

\* RedisGameService.calculateTreeLevel: scan the table from its last entry
RECURSIVE calculateTreeLevelFrom(_, _)
calculateTreeLevelFrom(totalGrowth, i) ==
  IF i = 0 THEN 1
  ELSE IF totalGrowth >= TREE_LEVELS[i].growthRequired THEN TREE_LEVELS[i].level
  ELSE calculateTreeLevelFrom(totalGrowth, i - 1)

\* a threshold compared with > instead of >=
calculateTreeLevelStrict(totalGrowth) ==
  IF totalGrowth = 0 THEN 1
  ELSE calculateTreeLevelFrom(totalGrowth - 1, Len(TREE_LEVELS))

calculateTreeLevel(totalGrowth) ==
  calculateTreeLevelFrom(totalGrowth, Len(TREE_LEVELS))

\* Math.round(growth * 100) / 100: thousandths to the nearest hundredth, a half
\* rounding up
Round2(thousandths) == (thousandths + 5) \div 10

\* GrowthCalculationService.calculateGrowth
calculateGrowth(seedsPlanted, spiritsFed, robotCharged, redditUpvotes) ==
  Round2(seedsPlanted * GROWTH_MULTIPLIERS.SEEDS_PLANTED
         + spiritsFed * GROWTH_MULTIPLIERS.SPIRITS_FED
         + robotCharged * GROWTH_MULTIPLIERS.ROBOT_CHARGED
         + redditUpvotes * GROWTH_MULTIPLIERS.REDDIT_UPVOTES)

\* levels.sort((a, b) => b.growthRequired - a.growthRequired)
RECURSIVE SortDescending(_)
SortDescending(levels) ==
  IF levels = {} THEN <<>>
  ELSE LET top == CHOOSE l \in levels :
                    \A m \in levels : m.growthRequired <= l.growthRequired
       IN <<top>> \o SortDescending(levels \ {top})

\* first sorted level with totalGrowth >= growthRequired, else 1
RECURSIVE FirstReached(_, _, _)
FirstReached(totalGrowth, sortedLevels, i) ==
  IF i > Len(sortedLevels) THEN 1
  ELSE IF totalGrowth >= sortedLevels[i].growthRequired THEN sortedLevels[i].level
  ELSE FirstReached(totalGrowth, sortedLevels, i + 1)

\* GrowthCalculationService.calculateTreeLevel
growthCalculateTreeLevel(totalGrowth) ==
  FirstReached(totalGrowth,
               SortDescending({TREE_LEVELS[i] : i \in DOMAIN TREE_LEVELS}), 1)

----------------------------------------------------------------------------
(* RedisGameService.                                                       *)

EmptyStore ==
  [state     |-> [s \in Subs |-> None],
   resources |-> [k \in PlayerKeys |-> None],
   actions   |-> [s \in Subs |-> <<>>],
   cooldown  |-> [k \in PlayerKeys |-> None],
   players   |-> [s \in Subs |-> <<>>],
   active    |-> [s \in Subs |-> {}],
   daily     |-> [s \in Subs |-> {}],
   schedules |-> [s \in Subs |-> <<>>]]

\* JSON.parse of the stored state; the Date fields are restored from their
\* ISO strings, which keep the millisecond
getGameState(w, subredditName) ==
  withRetry(LAMBDA v : Await(redisGet(v, "state", subredditName), LAMBDA o :
    IF o.val[1] = None THEN Ok(o.w, None)
    ELSE IF ~isGameState(o.val[1][1]) THEN Throw(o.w, "InvalidGameState")
    ELSE Ok(o.w, o.val[1])), w)

saveGameState(w, gameState) ==
  withRetry(LAMBDA v : redisSet(v, "state", gameState.subredditName,
                                Some([gameState EXCEPT !.updatedAt = now])), w)

initialState(subredditName) ==
  [subredditName |-> subredditName, treeLevel |-> 1, totalGrowth |-> 0,
   seedsPlanted |-> 0, spiritsFed |-> 0, robotCharged |-> 0, dailyUpvotes |-> 0,
   lastGrowthCalculation |-> now, createdAt |-> now, updatedAt |-> now]

\* the initial state written whether or not a state is stored
initializeGameStateAlways(w, subredditName) ==
  Await(getGameState(w, subredditName), LAMBDA o :
    Await(saveGameState(o.w, initialState(subredditName)),
          LAMBDA p : Ok(p.w, initialState(subredditName))))

initializeGameState(w, subredditName) ==
  Await(getGameState(w, subredditName), LAMBDA o :
    IF o.val[1] # None THEN Ok(o.w, o.val[1][1])
    ELSE Await(saveGameState(o.w, initialState(subredditName)),
               LAMBDA p : Ok(p.w, initialState(subredditName))))

\* { ...currentState, ...updates, updatedAt: new Date() } with treeLevel
\* recalculated from the merged totalGrowth
mergedGameState(currentState, updates) ==
  LET merged == [Spread(currentState, updates) EXCEPT !.updatedAt = now]
  IN [merged EXCEPT !.treeLevel = calculateTreeLevel(merged.totalGrowth)]

\* updates: a record holding some of the fields of GameState
updateGameState(w, subredditName, updates) ==
  withRetry(LAMBDA v : Await(getGameState(v, subredditName), LAMBDA o :
    IF o.val[1] = None THEN Throw(o.w, "NotFound")
    ELSE LET updatedState == mergedGameState(o.val[1][1], updates)
         IN Await(saveGameState(o.w, updatedState),
                  LAMBDA p : Ok(p.w, updatedState))), w)

\* the switch with the feed and charge cases exchanged
ActionCounterSwapped(actionType) ==
  CASE actionType = "plant"  -> [seedsPlanted |-> 1]
    [] actionType = "feed"   -> [robotCharged |-> 1]
    [] actionType = "charge" -> [spiritsFed |-> 1]
    [] OTHER                 -> <<>>

\* the switch on action.actionType
ActionCounter(actionType) ==
  CASE actionType = "plant"  -> [seedsPlanted |-> 1]
    [] actionType = "feed"   -> [spiritsFed |-> 1]
    [] actionType = "charge" -> [robotCharged |-> 1]
    [] OTHER                 -> <<>>

\* updates.f || 0
OrZero(updates, f) == IF f \in DOMAIN updates THEN updates[f] ELSE 0

\* the updates with only the action's own counter among them
actionUpdatesOwnCounter(currentState, action) ==
  LET first == [totalGrowth |-> 0] @@ ActionCounter(action.actionType)
  IN IF currentState = None THEN first
     ELSE [f \in DOMAIN first |->
             IF f = "totalGrowth"
             THEN currentState[1].totalGrowth + action.growthContributed
             ELSE currentState[1][f] + first[f]]

\* the updates handed to updateGameState; currentState is None or Some(state)
actionUpdates(currentState, action) ==
  LET first == [totalGrowth |-> 0] @@ ActionCounter(action.actionType)
  IN IF currentState = None THEN first
     ELSE [seedsPlanted |-> currentState[1].seedsPlanted
                              + OrZero(first, "seedsPlanted"),
           spiritsFed   |-> currentState[1].spiritsFed
                              + OrZero(first, "spiritsFed"),
           robotCharged |-> currentState[1].robotCharged
                              + OrZero(first, "robotCharged"),
           totalGrowth  |-> currentState[1].totalGrowth
                              + action.growthContributed]

updateGameStateFromAction(w, action) ==
  Await(getGameState(w, action.subredditName), LAMBDA o :
    updateGameState(o.w, action.subredditName, actionUpdates(o.val[1], action)))

\* actions.unshift(action); if (actions.length > 1000) actions.splice(1000)
Unshift(actions, action) ==
  LET grown == <<action>> \o actions
  IN IF Len(grown) > HISTORY_CAP THEN SubSeq(grown, 1, HISTORY_CAP) ELSE grown

\* actionHistory: the entry without id and timestamp
recordAction(w, actionHistory) ==
  withRetry(LAMBDA v :
    LET action == actionHistory @@ [id |-> v.ids, timestamp |-> now]
        v1 == [v EXCEPT !.ids = @ + 1]
    IN Await(redisGet(v1, "actions", actionHistory.subredditName), LAMBDA o :
         Await(redisSet(o.w, "actions", actionHistory.subredditName,
                        Unshift(o.val[1], action)), LAMBDA p :
           Await(updateGameStateFromAction(p.w, action), LAMBDA q :
             Ok(q.w, action)))), w)

\* the check with the expiry instant itself still on cooldown
checkActionCooldownLate(w, username, subredditName) ==
  withRetry(LAMBDA v :
    Await(redisGet(v, "cooldown", <<username, subredditName>>), LAMBDA o :
      LET expiryTimeStr == o.val[1]
      IN IF expiryTimeStr = None THEN Ok(o.w, FALSE)
         ELSE IF now > parseInt(expiryTimeStr[1])
              THEN Await(redisDel(o.w, "cooldown", <<username, subredditName>>),
                         LAMBDA p : Ok(p.w, FALSE))
              ELSE Ok(o.w, TRUE)), w)

checkActionCooldown(w, username, subredditName) ==
  withRetry(LAMBDA v :
    Await(redisGet(v, "cooldown", <<username, subredditName>>), LAMBDA o :
      LET expiryTimeStr == o.val[1]
      IN IF expiryTimeStr = None THEN Ok(o.w, FALSE)
         ELSE IF now >= parseInt(expiryTimeStr[1])
              THEN Await(redisDel(o.w, "cooldown", <<username, subredditName>>),
                         LAMBDA p : Ok(p.w, FALSE))
              ELSE Ok(o.w, TRUE)), w)

\* a cooldown stored for every player of the subreddit
setActionCooldownForSubreddit(w, username, subredditName, durationMs) ==
  withRetry(LAMBDA v :
    Ok([v EXCEPT !.kv.cooldown =
          [k \in PlayerKeys |->
             IF k[2] = subredditName THEN Some(toString(now + durationMs))
             ELSE v.kv.cooldown[k]]], TRUE), w)

setActionCooldown(w, username, subredditName, durationMs) ==
  withRetry(LAMBDA v : redisSet(v, "cooldown", <<username, subredditName>>,
                                Some(toString(now + durationMs))), w)

\* activePlayers[username] = now, then drop the entries older than one hour
trackActivePlayer(w, username, subredditName) ==
  withRetry(LAMBDA v : Await(redisGet(v, "active", subredditName), LAMBDA o :
    LET stamped == {e \in o.val[1] : e.user # username}
                     \cup {[user |-> username, at |-> now]}
        kept == {e \in stamped : ~(e.at < now - ONE_HOUR_MS)}
    IN redisSet(o.w, "active", subredditName, kept)), w)

getActivePlayerCount(w, subredditName) ==
  withRetry(LAMBDA v : Await(redisGet(v, "active", subredditName),
                             LAMBDA o : Ok(o.w, Cardinality(o.val[1]))), w)

----------------------------------------------------------------------------
(* PlayerResourceService.                                                  *)

getPlayerResources(w, username, subredditName) ==
  withRetry(LAMBDA v :
    Await(redisGet(v, "resources", <<username, subredditName>>), LAMBDA o :
      IF o.val[1] = None THEN Ok(o.w, None)
      ELSE IF ~isPlayerResources(o.val[1][1]) THEN Throw(o.w, "InvalidPlayerResources")
      ELSE Ok(o.w, o.val[1])), w)

\* if (!players.includes(username)) { players.push(username); set }
updatePlayerIndex(w, username, subredditName) ==
  Await(redisGet(w, "players", subredditName), LAMBDA o :
    IF \E i \in DOMAIN o.val[1] : o.val[1][i] = username THEN Ok(o.w, TRUE)
    ELSE redisSet(o.w, "players", subredditName, Append(o.val[1], username)))

savePlayerResources(w, resources) ==
  withRetry(LAMBDA v :
    Await(redisSet(v, "resources", <<resources.username, resources.subredditName>>,
                   Some([resources EXCEPT !.lastActive = now])), LAMBDA o :
      updatePlayerIndex(o.w, resources.username, resources.subredditName)), w)

initialResources(username, subredditName) ==
  [username |-> username, subredditName |-> subredditName,
   cinnamon |-> STARTING_CINNAMON * CinnamonScale, seeds |-> 0, energy |-> 0,
   totalContributions |-> 0, lastActive |-> now]

initializePlayerResources(w, username, subredditName) ==
  Await(getPlayerResources(w, username, subredditName), LAMBDA o :
    IF o.val[1] # None THEN Ok(o.w, o.val[1][1])
    ELSE Await(savePlayerResources(o.w, initialResources(username, subredditName)),
               LAMBDA p : Ok(p.w, initialResources(username, subredditName))))

\* the limits without the check against MAX_CINNAMON
validateResourceLimitsNoMaximum(resources) ==
  IF resources.cinnamon < 0 THEN "Cinnamon cannot be negative"
  ELSE IF resources.seeds < 0 THEN "Seeds cannot be negative"
  ELSE IF resources.energy < 0 THEN "Energy cannot be negative"
  ELSE IF resources.totalContributions < 0
       THEN "Total contributions cannot be negative"
  ELSE ""

\* returns the message of the first limit that is broken, "" when none is
validateResourceLimits(resources) ==
  IF resources.cinnamon < 0 THEN "Cinnamon cannot be negative"
  ELSE IF resources.cinnamon > MAX_CINNAMON * CinnamonScale
       THEN "Cinnamon cannot exceed MAX_CINNAMON"
  ELSE IF resources.seeds < 0 THEN "Seeds cannot be negative"
  ELSE IF resources.energy < 0 THEN "Energy cannot be negative"
  ELSE IF resources.totalContributions < 0
       THEN "Total contributions cannot be negative"
  ELSE ""

\* updates: a record holding some of the fields of PlayerResources
updatePlayerResources(w, username, subredditName, updates) ==
  withRetry(LAMBDA v :
    Await(getPlayerResources(v, username, subredditName), LAMBDA o :
      IF o.val[1] = None THEN Throw(o.w, "NotFound")
      ELSE LET updatedResources ==
                 [Spread(o.val[1][1], updates) EXCEPT !.lastActive = now]
           IN IF validateResourceLimits(updatedResources) # ""
              THEN Throw(o.w, "ValidationFailure")
              ELSE Await(savePlayerResources(o.w, updatedResources),
                         LAMBDA p : Ok(p.w, updatedResources))), w)

Min(a, b) == IF a < b THEN a ELSE b

\* amount in tenths of a cinnamon
earnCinnamon(w, username, subredditName, amount) ==
  IF amount <= 0 THEN Throw(w, "InvalidAmount")
  ELSE withRetry(LAMBDA v :
    Await(getPlayerResources(v, username, subredditName), LAMBDA o :
      IF o.val[1] = None THEN Throw(o.w, "NotFound")
      ELSE updatePlayerResources(o.w, username, subredditName,
             [cinnamon |-> Min(o.val[1][1].cinnamon + amount,
                               MAX_CINNAMON * CinnamonScale)])), w)

spendCinnamon(w, username, subredditName, amount) ==
  IF amount <= 0 THEN Throw(w, "InvalidAmount")
  ELSE withRetry(LAMBDA v :
    Await(getPlayerResources(v, username, subredditName), LAMBDA o :
      IF o.val[1] = None THEN Throw(o.w, "NotFound")
      ELSE IF o.val[1][1].cinnamon < amount
           THEN Throw(o.w, "InsufficientResources")
      ELSE updatePlayerResources(o.w, username, subredditName,
             [cinnamon |-> o.val[1][1].cinnamon - amount,
              totalContributions |-> o.val[1][1].totalContributions + amount])), w)

\* GAME_CONFIG.RESOURCE_COSTS by action type, in tenths of a cinnamon
getActionCost(actionType) ==
  CinnamonScale * (CASE actionType = "plant"  -> PLANT_SEED
                     [] actionType = "feed"   -> FEED_SPIRIT
                     [] actionType = "charge" -> CHARGE_ROBOT
                     [] actionType = "post"   -> POST_UPDATE)

canAffordAction(w, username, subredditName, actionType) ==
  withRetry(LAMBDA v :
    Await(getPlayerResources(v, username, subredditName), LAMBDA o :
      IF o.val[1] = None THEN Ok(o.w, FALSE)
      ELSE Ok(o.w, o.val[1][1].cinnamon >= getActionCost(actionType))), w)

\* the value is the cost; the resources returned are the stored ones
processActionTransaction(w, username, subredditName, actionType) ==
  withRetry(LAMBDA v :
    LET cost == getActionCost(actionType)
    IN IF cost = 0
       THEN Await(updatePlayerResources(v, username, subredditName, <<>>),
                  LAMBDA o : Ok(o.w, cost))
       ELSE Await(spendCinnamon(v, username, subredditName, cost),
                  LAMBDA o : Ok(o.w, cost)), w)

\* upvoteCount * UPVOTE_CINNAMON (0.1): one tenth of a cinnamon per upvote
awardUpvoteCinnamon(w, username, subredditName, upvoteCount) ==
  earnCinnamon(w, username, subredditName, upvoteCount)

awardDailyBonus(w, username, subredditName) ==
  earnCinnamon(w, username, subredditName, DAILY_BONUS * CinnamonScale)

----------------------------------------------------------------------------
(* GrowthCalculationService.processDailyGrowth and the upvote award of     *)
(* GameServiceIntegration.                                                 *)

\* new Date().toISOString().split('T')[0]: the UTC calendar day
Today == now \div DAY_MS

getDailyGrowthStats(w, subredditName, date) ==
  growthWithRetry(LAMBDA v : Await(redisGet(v, "daily", subredditName), LAMBDA o :
    LET stored == {d \in o.val[1] : d.date = date}
    IN Ok(o.w, IF stored = {} THEN None ELSE Some(CHOOSE d \in stored : TRUE))), w)

saveDailyGrowthStats(w, subredditName, date, stats) ==
  growthWithRetry(LAMBDA v :
    redisSet(v, "daily", subredditName,
             {d \in v.kv.daily[subredditName] : d.date # date} \cup {stats}), w)

\* the stored snapshot of the day overwritten by a fresh calculation
processDailyGrowthRecompute(w, subredditName) ==
  growthWithRetry(LAMBDA v : Await(getGameState(v, subredditName), LAMBDA g :
    IF g.val[1] = None THEN Throw(g.w, "NotFound")
    ELSE LET gameState == g.val[1][1]
             dailyStats ==
               [date |-> Today,
                seedsPlanted |-> gameState.seedsPlanted,
                spiritsFed |-> gameState.spiritsFed,
                robotCharged |-> gameState.robotCharged,
                redditUpvotes |-> gameState.dailyUpvotes,
                totalGrowth |->
                  calculateGrowth(gameState.seedsPlanted, gameState.spiritsFed,
                                  gameState.robotCharged, gameState.dailyUpvotes),
                activePlayerCount |-> Cardinality(g.w.kv.active[subredditName])]
         IN Await(saveDailyGrowthStats(g.w, subredditName, Today, dailyStats),
                  LAMBDA s : Ok(s.w, dailyStats))), w)

processDailyGrowth(w, subredditName) ==
  growthWithRetry(LAMBDA v : Await(getGameState(v, subredditName), LAMBDA g :
    IF g.val[1] = None THEN Throw(g.w, "NotFound")
    ELSE LET gameState == g.val[1][1]
             today == Today
         IN Await(getDailyGrowthStats(g.w, subredditName, today), LAMBDA e :
              IF e.val[1] # None THEN Ok(e.w, e.val[1][1])
              ELSE LET dailyGrowth ==
                         calculateGrowth(gameState.seedsPlanted, gameState.spiritsFed,
                                         gameState.robotCharged, gameState.dailyUpvotes)
                   IN Await(getActivePlayerCount(e.w, subredditName), LAMBDA c :
                        LET dailyStats ==
                              [date |-> today,
                               seedsPlanted |-> gameState.seedsPlanted,
                               spiritsFed |-> gameState.spiritsFed,
                               robotCharged |-> gameState.robotCharged,
                               redditUpvotes |-> gameState.dailyUpvotes,
                               totalGrowth |-> dailyGrowth,
                               activePlayerCount |-> c.val[1]]
                            newTotalGrowth == gameState.totalGrowth + dailyGrowth
                        IN Await(saveDailyGrowthStats(c.w, subredditName, today,
                                                      dailyStats), LAMBDA s :
                             Await(updateGameState(s.w, subredditName,
                                     [totalGrowth |-> newTotalGrowth,
                                      treeLevel |-> growthCalculateTreeLevel(newTotalGrowth),
                                      lastGrowthCalculation |-> now]),
                                   LAMBDA u : Ok(u.w, dailyStats)))))), w)

\* GrowthCalculationService.getDailyStats: the stored snapshot of today, else
\* the figures calculated from the current state, which are not stored
getDailyStats(w, subredditName) ==
  growthWithRetry(LAMBDA v : Await(getGameState(v, subredditName), LAMBDA g :
    IF g.val[1] = None THEN Throw(g.w, "NotFound")
    ELSE LET gameState == g.val[1][1]
             today == Today
         IN Await(getDailyGrowthStats(g.w, subredditName, today), LAMBDA e :
              IF e.val[1] # None THEN Ok(e.w, e.val[1][1])
              ELSE LET dailyGrowth ==
                         calculateGrowth(gameState.seedsPlanted, gameState.spiritsFed,
                                         gameState.robotCharged, gameState.dailyUpvotes)
                   IN Await(getActivePlayerCount(e.w, subredditName), LAMBDA c :
                        Ok(c.w, [date |-> today,
                                 seedsPlanted |-> gameState.seedsPlanted,
                                 spiritsFed |-> gameState.spiritsFed,
                                 robotCharged |-> gameState.robotCharged,
                                 redditUpvotes |-> gameState.dailyUpvotes,
                                 totalGrowth |-> dailyGrowth,
                                 activePlayerCount |-> c.val[1]])))), w)

\* GameServiceIntegration.awardUpvoteCinnamon: the value is success
integrationAwardUpvoteCinnamon(w, username, subredditName, upvoteCount) ==
  LET tried ==
        Await(awardUpvoteCinnamon(w, username, subredditName, upvoteCount), LAMBDA r :
          Await(getGameState(r.w, subredditName), LAMBDA g :
            IF g.val[1] = None THEN Ok(g.w, TRUE)
            ELSE Await(updateGameState(g.w, subredditName,
                         [dailyUpvotes |-> g.val[1][1].dailyUpvotes + upvoteCount]),
                       LAMBDA u : Ok(u.w, TRUE))))
  IN { IF o.ok THEN o ELSE [o EXCEPT !.ok = TRUE, !.val = <<FALSE>>] : o \in tried }

----------------------------------------------------------------------------
(* Action coordinator: the HTTP routes and GameServiceIntegration.         *)

\* every action contributing what a plant contributes
routeGrowthContributionFlat(actionType) == 150

\* the growth contribution written inline in the routes (1.5, 2, 3, 0)
routeGrowthContribution(actionType) ==
  CASE actionType = "plant"  -> 150
    [] actionType = "feed"   -> 200
    [] actionType = "charge" -> 300
    [] actionType = "post"   -> 0

\* GameServiceIntegration.calculateGrowthContribution: GROWTH_MULTIPLIERS
calculateGrowthContribution(actionType) ==
  CASE actionType = "plant"  -> GROWTH_MULTIPLIERS.SEEDS_PLANTED \div 10
    [] actionType = "feed"   -> GROWTH_MULTIPLIERS.SPIRITS_FED \div 10
    [] actionType = "charge" -> GROWTH_MULTIPLIERS.ROBOT_CHARGED \div 10
    [] OTHER                 -> 0

\* try { ... } catch (error) { respond with the error }
Caught(tried, response) ==
  { IF o.ok THEN o ELSE [o EXCEPT !.ok = TRUE, !.val = <<response>>] : o \in tried }

\* the action route with the debit moved before the cooldown guard
actionRouteDebitFirst(w, username, subredditName, actionType) ==
  Caught(
    Await(canAffordAction(w, username, subredditName, actionType), LAMBDA a :
      IF ~a.val[1] THEN Ok(a.w, "InsufficientResources")
      ELSE Await(processActionTransaction(a.w, username, subredditName, actionType),
                 LAMBDA t :
        Await(checkActionCooldown(t.w, username, subredditName), LAMBDA c :
          IF c.val[1] THEN Ok(c.w, "OnCooldown")
          ELSE Await(recordAction(c.w,
                       [username |-> username, subredditName |-> subredditName,
                        actionType |-> actionType, resourcesSpent |-> t.val[1],
                        growthContributed |-> routeGrowthContribution(actionType)]),
                     LAMBDA r :
            Await(setActionCooldown(r.w, username, subredditName,
                                    ACTION_COOLDOWN_MS), LAMBDA s :
              Ok(s.w, "Success")))))),
    "Error")

\* POST /api/plant, /api/feed, /api/charge: the value is the response
actionRoute(w, username, subredditName, actionType) ==
  Caught(
    Await(canAffordAction(w, username, subredditName, actionType), LAMBDA a :
      IF ~a.val[1] THEN Ok(a.w, "InsufficientResources")
      ELSE Await(checkActionCooldown(a.w, username, subredditName), LAMBDA c :
        IF c.val[1] THEN Ok(c.w, "OnCooldown")
        ELSE Await(processActionTransaction(c.w, username, subredditName, actionType),
                   LAMBDA t :
          Await(getGameState(t.w, subredditName), LAMBDA g :
            Await(recordAction(g.w,
                    [username |-> username, subredditName |-> subredditName,
                     actionType |-> actionType, resourcesSpent |-> t.val[1],
                     growthContributed |-> routeGrowthContribution(actionType)]),
                  LAMBDA r :
              Await(setActionCooldown(r.w, username, subredditName,
                                      ACTION_COOLDOWN_MS), LAMBDA s :
                Await(getGameState(s.w, subredditName), LAMBDA n :
                  Ok(n.w, "Success")))))))),
    "Error")

\* POST /api/post with the default post type; canPost and posted are the
\* platform's answers to validatePostPermissions and postCommunityUpdate
postRoute(w, username, subredditName, canPost, posted) ==
  Caught(
    Await(checkActionCooldown(w, username, subredditName), LAMBDA c :
      IF c.val[1] THEN Ok(c.w, "OnCooldown")
      ELSE IF ~canPost THEN Ok(c.w, "Forbidden")
      ELSE Await(getGameState(c.w, subredditName), LAMBDA g :
        IF g.val[1] = None THEN Ok(g.w, "NotFound")
        ELSE Await(processActionTransaction(g.w, username, subredditName, "post"),
                   LAMBDA t :
          IF ~posted THEN Ok(t.w, "PlatformError")
          ELSE Await(recordAction(t.w,
                       [username |-> username, subredditName |-> subredditName,
                        actionType |-> "post", resourcesSpent |-> t.val[1],
                        growthContributed |-> routeGrowthContribution("post")]),
                     LAMBDA r :
            Await(setActionCooldown(r.w, username, subredditName,
                                    POST_COOLDOWN_MS), LAMBDA s :
              Await(getGameState(s.w, subredditName), LAMBDA n :
                Ok(n.w, "Success"))))))),
    "Error")

\* GameServiceIntegration.processPlayerAction: the value is the result
processPlayerAction(w, username, subredditName, actionType) ==
  Caught(
    Await(checkActionCooldown(w, username, subredditName), LAMBDA c :
      IF c.val[1] THEN Ok(c.w, "OnCooldown")
      ELSE Await(canAffordAction(c.w, username, subredditName, actionType), LAMBDA a :
        IF ~a.val[1] THEN Ok(a.w, "InsufficientResources")
        ELSE Await(processActionTransaction(a.w, username, subredditName, actionType),
                   LAMBDA t :
          Await(recordAction(t.w,
                  [username |-> username, subredditName |-> subredditName,
                   actionType |-> actionType, resourcesSpent |-> t.val[1],
                   growthContributed |-> calculateGrowthContribution(actionType)]),
                LAMBDA r :
            Await(setActionCooldown(r.w, username, subredditName,
                                    ACTION_COOLDOWN_MS), LAMBDA s :
              Await(trackActivePlayer(s.w, username, subredditName), LAMBDA k :
                Await(getGameState(k.w, subredditName), LAMBDA n :
                  Ok(n.w, "Success")))))))),
    "Error")

\* GET /api/init/:subreddit and GameServiceIntegration.initializePlayerSession
initializePlayerSession(w, username, subredditName) ==
  Caught(
    Await(initializeGameState(w, subredditName), LAMBDA g :
      Await(initializePlayerResources(g.w, username, subredditName), LAMBDA p :
        Await(trackActivePlayer(p.w, username, subredditName), LAMBDA k :
          Ok(k.w, "Success")))),
    "Error")

----------------------------------------------------------------------------
(* State, and the frame of one call.                                       *)

World == [kv |-> redis, ids |-> nextId, faults |-> faultsLeft]

\* val: the value the call resolved with, where a specification looks at it
Call(op, username, subredditName, arg, n, res) ==
  [op |-> op, user |-> username, sub |-> subredditName, arg |-> arg, n |-> n,
   res |-> res, val |-> None, log |-> <<>>, msg |-> <<>>]

Returning(call, o) == [call EXCEPT !.val = o.val]

\* the call with the trace it left and the message it threw
Traced(call, o) == [call EXCEPT !.log = o.w.log, !.msg = o.msg]

NoReqs == [p \in {} |-> 0]

\* new ChronicleScheduler(): intervalId = null, isRunning = false; timers is
\* the set of interval timers armed and not cleared, nextTimer the id that
\* setInterval hands out next
NewScheduler ==
  [isRunning |-> FALSE, intervalId |-> None, timers |-> {}, nextTimer |-> 1]

\* cacheRef.current = null
NoCache == None

InitWith(faults, calls) ==
  /\ redis = EmptyStore
  /\ nextId = 1
  /\ now = 0
  /\ faultsLeft = faults
  /\ last = Call("none", "", "", "", 0, "")
  /\ cdSet = [k \in PlayerKeys |-> None]
  /\ done = [s \in Subs |-> [t \in ActionTypes |-> 0]]
  /\ steps = 0
  /\ limit = calls
  /\ reqs = NoReqs
  /\ scheduler = NewScheduler
  /\ client = NoCache

\* the store and the id source after outcome o, and the call it ended
Commit(o, call) ==
  /\ redis' = o.w.kv
  /\ nextId' = o.w.ids
  /\ faultsLeft' = o.w.faults
  /\ last' = call
  /\ steps' = steps + 1
  /\ limit' = limit

Result(o) == IF o.ok THEN "ok" ELSE o.err

----------------------------------------------------------------------------
(* Spec: the game state repository called in any order.                    *)

MaxGameSteps == 3

GameUsers == {"alice"}

\* partial GameState fields a caller may hand to updateGameState
UpdateInputs ==
  { [totalGrowth |-> 50 * GrowthScale, seedsPlanted |-> 5],
    [totalGrowth |-> 49 * GrowthScale, treeLevel |-> 6],
    [treeLevel |-> 3],
    [dailyUpvotes |-> 7] }

UpvoteInputs == {3}

InitializeGameState(s) ==
  /\ steps < limit
  /\ \E o \in initializeGameState(World, s) :
       Commit(o, Returning(Call("initializeGameState", "", s, "", now, Result(o)), o))
  /\ UNCHANGED <<scheduler, client, now, cdSet, done, reqs>>

InitializePlayerSession(u, s) ==
  /\ steps < limit
  /\ \E o \in initializePlayerSession(World, u, s) :
       Commit(o, Call("initializePlayerSession", u, s, "", 0, o.val[1]))
  /\ UNCHANGED <<scheduler, client, now, cdSet, done, reqs>>

UpdateGameState(s, updates) ==
  /\ steps < limit
  /\ \E o \in updateGameState(World, s, updates) :
       Commit(o, Call("updateGameState", "", s, "",
                      IF "treeLevel" \in DOMAIN updates THEN updates.treeLevel ELSE 0,
                      Result(o)))
  /\ UNCHANGED <<scheduler, client, now, cdSet, done, reqs>>

RecordAction(u, s, t) ==
  /\ steps < limit
  /\ \E o \in recordAction(World,
                 [username |-> u, subredditName |-> s, actionType |-> t,
                  resourcesSpent |-> getActionCost(t),
                  growthContributed |-> calculateGrowthContribution(t)]) :
       /\ Commit(o, Call("recordAction", u, s, t,
                         calculateGrowthContribution(t), Result(o)))
       /\ done' = IF o.ok THEN [done EXCEPT ![s][t] = @ + 1] ELSE done
  /\ UNCHANGED <<scheduler, client, now, cdSet, reqs>>

AwardUpvotes(u, s, n) ==
  /\ steps < limit
  /\ \E o \in integrationAwardUpvoteCinnamon(World, u, s, n) :
       Commit(o, Call("awardUpvoteCinnamon", u, s, "", n,
                      IF o.val[1] THEN "ok" ELSE o.err))
  /\ UNCHANGED <<scheduler, client, now, cdSet, done, reqs>>

ProcessDailyGrowth(s) ==
  /\ steps < limit
  /\ \E o \in processDailyGrowth(World, s) :
       Commit(o, Returning(Call("processDailyGrowth", "", s, "", 0, Result(o)), o))
  /\ UNCHANGED <<scheduler, client, now, cdSet, done, reqs>>

Init == InitWith(0, MaxGameSteps)

Next ==
  \/ \E s \in Subs : InitializeGameState(s)
  \/ \E u \in GameUsers, s \in Subs : InitializePlayerSession(u, s)
  \/ \E s \in Subs, updates \in UpdateInputs : UpdateGameState(s, updates)
  \/ \E u \in GameUsers, s \in Subs, t \in ActionTypes : RecordAction(u, s, t)
  \/ \E u \in GameUsers, s \in Subs, n \in UpvoteInputs : AwardUpvotes(u, s, n)
  \/ \E s \in Subs : ProcessDailyGrowth(s)

Spec == Init /\ [][Next]_vars

\* the level step function of the specification: the highest level whose
\* threshold (0, 50, 150, 300, 500, 1000) is at most the growth
LevelOf(totalGrowth) ==
  IF totalGrowth >= 1000 * GrowthScale THEN 6
  ELSE IF totalGrowth >= 500 * GrowthScale THEN 5
  ELSE IF totalGrowth >= 300 * GrowthScale THEN 4
  ELSE IF totalGrowth >= 150 * GrowthScale THEN 3
  ELSE IF totalGrowth >= 50 * GrowthScale THEN 2
  ELSE 1

----------------------------------------------------------------------------
(* SpecRecord: recordAction on one subreddit while store operations fail.  *)

MaxRecordSteps == 2
MaxRecordFaults == 3

\* the store after initializeGameState("testsub") and an upvote award of 7
RecordStore ==
  LET fresh == [kv |-> EmptyStore, ids |-> 1, faults |-> 0]
      made == CHOOSE o \in initializeGameState(fresh, "testsub") : o.ok
      awarded == CHOOSE o \in updateGameState(made.w, "testsub",
                                              [dailyUpvotes |-> 7]) : o.ok
  IN awarded.w.kv

InitRecord ==
  /\ now = 0
  /\ redis = RecordStore
  /\ nextId = 1
  /\ faultsLeft = MaxRecordFaults
  /\ last = Call("none", "", "", "", 0, "")
  /\ cdSet = [k \in PlayerKeys |-> None]
  /\ done = [s \in Subs |-> [t \in ActionTypes |-> 0]]
  /\ steps = 0
  /\ limit = MaxRecordSteps
  /\ reqs = NoReqs
  /\ scheduler = NewScheduler
  /\ client = NoCache

NextRecord ==
  \E t \in ActionTypes : RecordAction("alice", "testsub", t)

SpecRecord == InitRecord /\ [][NextRecord]_vars

Bump(actionType, counted) == IF actionType = counted THEN 1 ELSE 0

\* C6: a successful recordAction adds 1 to the counter of its action type
\* (none for post), leaves the other counters and dailyUpvotes as they were
\* and adds growthContributed to totalGrowth.
C6_RecordActionCounts ==
  [][ (last'.op = "recordAction" /\ last'.res = "ok" /\ steps' = steps + 1) =>
        /\ redis.state[last'.sub] # None
        /\ redis'.state[last'.sub] # None
        /\ LET before == redis.state[last'.sub][1]
               after == redis'.state[last'.sub][1]
           IN /\ after.seedsPlanted = before.seedsPlanted + Bump(last'.arg, "plant")
              /\ after.spiritsFed = before.spiritsFed + Bump(last'.arg, "feed")
              /\ after.robotCharged = before.robotCharged + Bump(last'.arg, "charge")
              /\ after.dailyUpvotes = before.dailyUpvotes
              /\ after.totalGrowth = before.totalGrowth + last'.n ]_vars

\* a charge was recorded on its second attempt, dailyUpvotes being 7
C6_Witness ==
  /\ last.op = "recordAction" /\ last.res = "ok" /\ last.arg = "charge"
  /\ Len(redis.actions["testsub"]) = 2
  /\ redis.state["testsub"][1].robotCharged = 1
  /\ redis.state["testsub"][1].dailyUpvotes = 7
  /\ redis.state["testsub"][1].totalGrowth = 3 * GrowthScale

----------------------------------------------------------------------------
(* SpecPlayer: the player resource service while store operations fail.    *)

MaxPlayerSteps == 2
MaxPlayerFaults == 9

\* amounts, in tenths of a cinnamon, handed to earnCinnamon and spendCinnamon
EarnInputs == {20, MAX_CINNAMON * CinnamonScale}
SpendInputs == {30, 60, 110}

\* partial PlayerResources fields a caller may hand to updatePlayerResources
ResourceInputs ==
  { [cinnamon |-> 0 - 10],
    [cinnamon |-> MAX_CINNAMON * CinnamonScale + 1],
    [cinnamon |-> MAX_CINNAMON * CinnamonScale, seeds |-> 2] }

InitializePlayerResources(u, s) ==
  /\ steps < limit
  /\ \E o \in initializePlayerResources(World, u, s) :
       Commit(o, Call("initializePlayerResources", u, s, "", 0, Result(o)))
  /\ UNCHANGED <<scheduler, client, now, cdSet, done, reqs>>

EarnCinnamon(u, s, amount) ==
  /\ steps < limit
  /\ \E o \in earnCinnamon(World, u, s, amount) :
       Commit(o, Call("earnCinnamon", u, s, "", amount, Result(o)))
  /\ UNCHANGED <<scheduler, client, now, cdSet, done, reqs>>

SpendCinnamon(u, s, amount) ==
  /\ steps < limit
  /\ \E o \in spendCinnamon(World, u, s, amount) :
       Commit(o, Call("spendCinnamon", u, s, "", amount, Result(o)))
  /\ UNCHANGED <<scheduler, client, now, cdSet, done, reqs>>

ProcessActionTransaction(u, s, t) ==
  /\ steps < limit
  /\ \E o \in processActionTransaction(World, u, s, t) :
       Commit(o, Call("processActionTransaction", u, s, t, getActionCost(t),
                      Result(o)))
  /\ UNCHANGED <<scheduler, client, now, cdSet, done, reqs>>

UpdatePlayerResources(u, s, updates) ==
  /\ steps < limit
  /\ \E o \in updatePlayerResources(World, u, s, updates) :
       Commit(o, Call("updatePlayerResources", u, s, "", 0, Result(o)))
  /\ UNCHANGED <<scheduler, client, now, cdSet, done, reqs>>

InitPlayer == InitWith(MaxPlayerFaults, MaxPlayerSteps)

NextPlayer ==
  \/ InitializePlayerResources("alice", "testsub")
  \/ \E amount \in EarnInputs : EarnCinnamon("alice", "testsub", amount)
  \/ \E amount \in SpendInputs : SpendCinnamon("alice", "testsub", amount)
  \/ \E t \in ActionTypes : ProcessActionTransaction("alice", "testsub", t)
  \/ \E updates \in ResourceInputs : UpdatePlayerResources("alice", "testsub", updates)

SpecPlayer == InitPlayer /\ [][NextPlayer]_vars

\* C2: a processActionTransaction that returns successfully has debited the
\* player's stored cinnamon by exactly the action's cost and has added
\* exactly that cost to totalContributions, retried store failures included.
C2_ExactDebit ==
  [][ (last'.op = "processActionTransaction" /\ last'.res = "ok"
       /\ steps' = steps + 1) =>
        LET k == <<last'.user, last'.sub>>
        IN /\ redis.resources[k] # None
           /\ redis'.resources[k] # None
           /\ redis'.resources[k][1].cinnamon
                = redis.resources[k][1].cinnamon - last'.n
           /\ redis'.resources[k][1].totalContributions
                = redis.resources[k][1].totalContributions + last'.n ]_vars

\* C12: spendCinnamon with amount above the stored cinnamon is rejected and
\* leaves the stored PlayerResources as they were, a rejection with the
\* insufficient-resources error never goes with a change of the stored
\* record, and with 0 < amount <= cinnamon the call is not rejected as
\* insufficient and succeeds when no store operation fails.
C12_SpendFloor ==
  [][ (last'.op = "spendCinnamon" /\ steps' = steps + 1
       /\ redis.resources[<<last'.user, last'.sub>>] # None) =>
        LET k == <<last'.user, last'.sub>>
            cinnamon == redis.resources[k][1].cinnamon
        IN /\ last'.n > cinnamon =>
                /\ last'.res # "ok"
                /\ faultsLeft' = faultsLeft => last'.res = "InsufficientResources"
                /\ redis'.resources[k] = redis.resources[k]
           /\ last'.res = "InsufficientResources" =>
                redis'.resources[k] = redis.resources[k]
           /\ (0 < last'.n /\ last'.n <= cinnamon) =>
                /\ last'.res # "InsufficientResources"
                /\ faultsLeft' = faultsLeft => last'.res = "ok" ]_vars

----------------------------------------------------------------------------
(* SpecInterleave: requests to the player resource service running         *)
(* concurrently. A request gives way at each await, so one step is one     *)
(* store operation and the synchronous code that follows it; no store      *)
(* operation fails here. a1, a2, a3 count the attempts of the withRetry of *)
(* processActionTransaction, of earnCinnamon or spendCinnamon, and of      *)
(* updatePlayerResources.                                                  *)

MaxRequests == 2

\* the store after initializePlayerResources("alice", "testsub")
PlayerStore ==
  LET fresh == [kv |-> EmptyStore, ids |-> 1, faults |-> 0]
      made == CHOOSE o \in initializePlayerResources(fresh, "alice", "testsub") : o.ok
  IN made.w.kv

Request(op, username, subredditName, arg, n, updates) ==
  [op |-> op, user |-> username, sub |-> subredditName, arg |-> arg, n |-> n,
   updates |-> updates, pc |-> "idle", a1 |-> 1, a2 |-> 1, a3 |-> 1,
   record |-> <<>>, res |-> ""]

RequestInputs ==
  { Request("initializePlayerResources", "alice", "testsub", "", 0, <<>>),
    Request("initializePlayerResources", "bob", "testsub", "", 0, <<>>),
    Request("earnCinnamon", "alice", "testsub", "", MAX_CINNAMON * CinnamonScale, <<>>),
    Request("earnCinnamon", "bob", "testsub", "", 20, <<>>),
    Request("spendCinnamon", "alice", "testsub", "", 30, <<>>),
    Request("processActionTransaction", "alice", "testsub", "plant", 0, <<>>),
    Request("processActionTransaction", "alice", "testsub", "post", 0, <<>>) }
  \cup { Request("updatePlayerResources", "alice", "testsub", "", 0, updates) :
          updates \in ResourceInputs }

\* where a request, or a new attempt of one of its retried operations, starts
EntryOf(q) ==
  CASE q.op = "initializePlayerResources" -> "init_get"
    [] q.op = "earnCinnamon"              -> "earn_get"
    [] q.op = "spendCinnamon"             -> "spend_get"
    [] q.op = "updatePlayerResources"     -> "update_get"
    [] q.op = "processActionTransaction"  ->
         IF getActionCost(q.arg) = 0 THEN "update_get" ELSE "spend_get"

\* the cost === 0 branch of processActionTransaction hands over {}; the
\* other branch spends the cost
Entered(q) ==
  IF q.op = "processActionTransaction"
  THEN [q EXCEPT !.pc = EntryOf(q), !.n = getActionCost(q.arg), !.updates = <<>>]
  ELSE [q EXCEPT !.pc = EntryOf(q)]

Finished(q, res) == [q EXCEPT !.pc = "done", !.res = res]

\* the withRetry of processActionTransaction catches an error
Fail1(q, e) ==
  IF q.op = "processActionTransaction" /\ q.a1 < maxRetries
  THEN Entered([q EXCEPT !.a1 = @ + 1, !.a2 = 1, !.a3 = 1])
  ELSE Finished(q, e)

\* the withRetry of earnCinnamon or spendCinnamon catches an error
Fail2(q, e) ==
  IF EntryOf(q) = "update_get" THEN Fail1(q, e)
  ELSE IF q.a2 < maxRetries
       THEN [q EXCEPT !.a2 = @ + 1, !.a3 = 1, !.pc = EntryOf(q)]
  ELSE Fail1(q, e)

\* the withRetry of updatePlayerResources catches an error
Fail3(q, e) ==
  IF q.a3 < maxRetries THEN [q EXCEPT !.a3 = @ + 1, !.pc = "update_get"]
  ELSE Fail2(q, e)

\* a request arrives; requests are numbered in their order of arrival
StartRequest(r, input) ==
  /\ reqs[r].pc = "idle"
  /\ \A p \in DOMAIN reqs : p < r => reqs[p].pc # "idle"
  /\ reqs' = [reqs EXCEPT ![r] = Entered(input)]
  /\ UNCHANGED <<scheduler, client, redis, nextId, now, faultsLeft, last, cdSet, done, steps, limit>>

\* await this.getPlayerResources(...) and the code up to the next await
GetResources(r) ==
  LET q == reqs[r]
      current == redis.resources[<<q.user, q.sub>>]
      after ==
        CASE q.pc = "init_get" ->
               IF current # None THEN Finished(q, "ok")
               ELSE [q EXCEPT !.record = initialResources(q.user, q.sub),
                              !.pc = "save_set"]
          [] q.pc = "earn_get" ->
               IF current = None THEN Fail2(q, "NotFound")
               ELSE [q EXCEPT !.updates =
                                [cinnamon |-> Min(current[1].cinnamon + q.n,
                                                  MAX_CINNAMON * CinnamonScale)],
                              !.a3 = 1, !.pc = "update_get"]
          [] q.pc = "spend_get" ->
               IF current = None THEN Fail2(q, "NotFound")
               ELSE IF current[1].cinnamon < q.n
                    THEN Fail2(q, "InsufficientResources")
               ELSE [q EXCEPT !.updates =
                                [cinnamon |-> current[1].cinnamon - q.n,
                                 totalContributions |->
                                   current[1].totalContributions + q.n],
                              !.a3 = 1, !.pc = "update_get"]
          [] q.pc = "update_get" ->
               IF current = None THEN Fail3(q, "NotFound")
               ELSE LET updatedResources ==
                          [Spread(current[1], q.updates) EXCEPT !.lastActive = now]
                    IN IF validateResourceLimits(updatedResources) # ""
                       THEN Fail3(q, "ValidationFailure")
                       ELSE [q EXCEPT !.record = updatedResources, !.pc = "save_set"]
  IN /\ q.pc \in {"init_get", "earn_get", "spend_get", "update_get"}
     /\ reqs' = [reqs EXCEPT ![r] = after]
     /\ last' = IF after.pc = "done"
                THEN Call(q.op, q.user, q.sub, q.arg, q.n, after.res) ELSE last
     /\ UNCHANGED <<scheduler, client, redis, nextId, now, faultsLeft, cdSet, done, steps, limit>>

\* savePlayerResources: await redis.set(key, JSON.stringify(resources))
SetResources(r) ==
  LET q == reqs[r]
  IN /\ q.pc = "save_set"
     /\ redis' = [redis EXCEPT !.resources[<<q.user, q.sub>>] =
                                 Some([q.record EXCEPT !.lastActive = now])]
     /\ reqs' = [reqs EXCEPT ![r].pc = "index_get"]
     /\ UNCHANGED <<scheduler, client, nextId, now, faultsLeft, last, cdSet, done, steps, limit>>

\* updatePlayerIndex: await redis.get(indexKey)
GetPlayerIndex(r) ==
  LET q == reqs[r]
      players == redis.players[q.sub]
      after == IF \E i \in DOMAIN players : players[i] = q.user
               THEN Finished(q, "ok")
               ELSE [q EXCEPT !.record = Append(players, q.user), !.pc = "index_set"]
  IN /\ q.pc = "index_get"
     /\ reqs' = [reqs EXCEPT ![r] = after]
     /\ last' = IF after.pc = "done"
                THEN Call(q.op, q.user, q.sub, q.arg, q.n, "ok") ELSE last
     /\ UNCHANGED <<scheduler, client, redis, nextId, now, faultsLeft, cdSet, done, steps, limit>>

\* updatePlayerIndex: await redis.set(indexKey, JSON.stringify(players))
SetPlayerIndex(r) ==
  LET q == reqs[r]
  IN /\ q.pc = "index_set"
     /\ redis' = [redis EXCEPT !.players[q.sub] = q.record]
     /\ reqs' = [reqs EXCEPT ![r] = Finished(q, "ok")]
     /\ last' = Call(q.op, q.user, q.sub, q.arg, q.n, "ok")
     /\ UNCHANGED <<scheduler, client, nextId, now, faultsLeft, cdSet, done, steps, limit>>

InitInterleave ==
  /\ now = 0
  /\ redis = PlayerStore
  /\ nextId = 1
  /\ faultsLeft = 0
  /\ last = Call("none", "", "", "", 0, "")
  /\ cdSet = [k \in PlayerKeys |-> None]
  /\ done = [s \in Subs |-> [t \in ActionTypes |-> 0]]
  /\ steps = 0
  /\ limit = 0
  /\ reqs = [r \in 1..MaxRequests |-> Request("", "", "", "", 0, <<>>)]
  /\ scheduler = NewScheduler
  /\ client = NoCache

NextInterleave ==
  \/ \E r \in DOMAIN reqs, input \in RequestInputs : StartRequest(r, input)
  \/ \E r \in DOMAIN reqs : GetResources(r)
  \/ \E r \in DOMAIN reqs : SetResources(r)
  \/ \E r \in DOMAIN reqs : GetPlayerIndex(r)
  \/ \E r \in DOMAIN reqs : SetPlayerIndex(r)

SpecInterleave == InitInterleave /\ [][NextInterleave]_vars

\* C3: every stored PlayerResources record has 0 <= cinnamon <= MAX_CINNAMON,
\* whatever the order and the interleaving of initializePlayerResources,
\* earnCinnamon, spendCinnamon, processActionTransaction and
\* updatePlayerResources.
C3_CinnamonWithinLimits ==
  \A k \in PlayerKeys :
    redis.resources[k] # None =>
      /\ redis.resources[k][1].cinnamon >= 0
      /\ redis.resources[k][1].cinnamon <= MAX_CINNAMON * CinnamonScale

\* an earnCinnamon that ran alongside another request has left the player
\* at the maximum, and an update beyond the maximum was refused
C3_Witness ==
  /\ redis.resources[<<"alice", "testsub">>][1].cinnamon
       = MAX_CINNAMON * CinnamonScale
  /\ \E r \in DOMAIN reqs :
       reqs[r].op = "earnCinnamon" /\ reqs[r].user = "alice" /\ reqs[r].res = "ok"
  /\ \E r \in DOMAIN reqs :
       /\ reqs[r].op = "updatePlayerResources" /\ reqs[r].res = "ValidationFailure"
       /\ reqs[r].updates = [cinnamon |-> MAX_CINNAMON * CinnamonScale + 1]

----------------------------------------------------------------------------
(* SpecRace: action requests, upvote awards and daily growth processing    *)
(* running concurrently on one subreddit. A request gives way at each      *)
(* await that reads or writes the action history or the game state; its    *)
(* awaits on the keys of the player, of the cooldown and of the daily      *)
(* statistics are taken together with the step they precede. No store      *)
(* operation fails here, and the game state exists from the start, so no   *)
(* operation is retried.                                                   *)

MaxRaceRequests == 2

\* the store after GET /api/init/testsub by alice and by bob
RaceStore ==
  LET fresh == [kv |-> EmptyStore, ids |-> 1, faults |-> 0]
      first == CHOOSE o \in initializePlayerSession(fresh, "alice", "testsub") : TRUE
      second == CHOOSE o \in initializePlayerSession(first.w, "bob", "testsub") : TRUE
  IN second.w.kv

RaceRequest(op, username, subredditName, arg, n) ==
  [op |-> op, user |-> username, sub |-> subredditName, arg |-> arg, n |-> n,
   pc |-> "idle", action |-> <<>>, read |-> <<>>, updates |-> <<>>,
   write |-> <<>>, res |-> ""]

RaceInputs ==
  { RaceRequest("action", u, "testsub", t, routeGrowthContribution(t)) :
      u \in Users, t \in {"plant", "feed", "charge"} }
  \cup { RaceRequest("awardUpvoteCinnamon", "alice", "testsub", "", 3),
         RaceRequest("processDailyGrowth", "", "testsub", "", 0) }

\* the guards without the cooldown check
actionGuardsUnchecked(w, username, subredditName, actionType) ==
  Await(canAffordAction(w, username, subredditName, actionType), LAMBDA a :
    IF ~a.val[1] THEN Throw(a.w, "InsufficientResources")
    ELSE processActionTransaction(a.w, username, subredditName, actionType))

\* the guards of an action route and its debit: the value is the cost, or
\* the response of the guard that rejected
actionGuards(w, username, subredditName, actionType) ==
  Await(canAffordAction(w, username, subredditName, actionType), LAMBDA a :
    IF ~a.val[1] THEN Throw(a.w, "InsufficientResources")
    ELSE Await(checkActionCooldown(a.w, username, subredditName), LAMBDA c :
      IF c.val[1] THEN Throw(c.w, "OnCooldown")
      ELSE processActionTransaction(c.w, username, subredditName, actionType)))

StartRace(r, input) ==
  /\ reqs[r].pc = "idle"
  /\ \A p \in DOMAIN reqs : p < r => reqs[p].pc # "idle"
  /\ reqs' = [reqs EXCEPT ![r] =
       [input EXCEPT !.pc = CASE input.op = "action" -> "guards"
                             [] input.op = "awardUpvoteCinnamon" -> "award"
                             [] input.op = "processDailyGrowth" -> "daily_get"]]
  /\ UNCHANGED <<scheduler, client, redis, nextId, now, faultsLeft, last, cdSet, done, steps, limit>>

\* canAffordAction, checkActionCooldown, processActionTransaction
Guards(r) ==
  LET q == reqs[r]
  IN /\ q.pc = "guards"
     /\ \E o \in actionGuards(World, q.user, q.sub, q.arg) :
          /\ redis' = o.w.kv
          /\ reqs' = [reqs EXCEPT ![r] =
               IF o.ok
               THEN [q EXCEPT !.pc = "history_get",
                              !.action =
                                [username |-> q.user, subredditName |-> q.sub,
                                 actionType |-> q.arg, resourcesSpent |-> o.val[1],
                                 growthContributed |-> q.n]]
               ELSE [q EXCEPT !.pc = "done", !.res = o.err]]
     /\ UNCHANGED <<scheduler, client, nextId, now, faultsLeft, last, cdSet, done, steps, limit>>

\* recordAction: the entry gets its id and timestamp; await redis.get(actionKey)
HistoryGet(r) ==
  LET q == reqs[r]
      action == q.action @@ [id |-> nextId, timestamp |-> now]
  IN /\ q.pc = "history_get"
     /\ nextId' = nextId + 1
     /\ reqs' = [reqs EXCEPT ![r] =
          [q EXCEPT !.action = action,
                    !.write = Unshift(redis.actions[q.sub], action),
                    !.pc = "history_set"]]
     /\ UNCHANGED <<scheduler, client, redis, now, faultsLeft, last, cdSet, done, steps, limit>>

\* recordAction: await redis.set(actionKey, JSON.stringify(actions))
HistorySet(r) ==
  LET q == reqs[r]
  IN /\ q.pc = "history_set"
     /\ redis' = [redis EXCEPT !.actions[q.sub] = q.write]
     /\ reqs' = [reqs EXCEPT ![r].pc = "state_get"]
     /\ UNCHANGED <<scheduler, client, nextId, now, faultsLeft, last, cdSet, done, steps, limit>>

\* awardUpvoteCinnamon of the player resource service
Award(r) ==
  LET q == reqs[r]
  IN /\ q.pc = "award"
     /\ \E o \in awardUpvoteCinnamon(World, q.user, q.sub, q.n) :
          /\ redis' = o.w.kv
          /\ reqs' = [reqs EXCEPT ![r] =
               IF o.ok THEN [q EXCEPT !.pc = "upvote_get"]
               ELSE [q EXCEPT !.pc = "done", !.res = o.err]]
     /\ UNCHANGED <<scheduler, client, nextId, now, faultsLeft, last, cdSet, done, steps, limit>>

\* await redisGameService.getGameState(...) of updateGameStateFromAction,
\* of the upvote award and of processDailyGrowth
StateGet(r) ==
  LET q == reqs[r]
      currentState == redis.state[q.sub]
      after ==
        CASE q.pc = "state_get" ->
               [q EXCEPT !.updates = actionUpdates(currentState, q.action),
                         !.pc = "update_get"]
          [] q.pc = "upvote_get" ->
               IF currentState = None THEN [q EXCEPT !.pc = "done", !.res = "ok"]
               ELSE [q EXCEPT !.updates =
                                [dailyUpvotes |-> currentState[1].dailyUpvotes + q.n],
                              !.pc = "update_get"]
          [] q.pc = "daily_get" ->
               IF currentState = None THEN [q EXCEPT !.pc = "done", !.res = "NotFound"]
               ELSE [q EXCEPT !.read = currentState[1], !.pc = "daily_stats"]
  IN /\ q.pc \in {"state_get", "upvote_get", "daily_get"}
     /\ reqs' = [reqs EXCEPT ![r] = after]
     /\ UNCHANGED <<scheduler, client, redis, nextId, now, faultsLeft, last, cdSet, done, steps, limit>>

\* processDailyGrowth between its read of the game state and its update:
\* getDailyGrowthStats, getActivePlayerCount, saveDailyGrowthStats
DailyStats(r) ==
  LET q == reqs[r]
      gameState == q.read
      existing == CHOOSE o \in getDailyGrowthStats(World, q.sub, Today) : TRUE
      dailyGrowth == calculateGrowth(gameState.seedsPlanted, gameState.spiritsFed,
                                     gameState.robotCharged, gameState.dailyUpvotes)
      count == CHOOSE o \in getActivePlayerCount(World, q.sub) : TRUE
      dailyStats == [date |-> Today,
                     seedsPlanted |-> gameState.seedsPlanted,
                     spiritsFed |-> gameState.spiritsFed,
                     robotCharged |-> gameState.robotCharged,
                     redditUpvotes |-> gameState.dailyUpvotes,
                     totalGrowth |-> dailyGrowth,
                     activePlayerCount |-> count.val[1]]
      newTotalGrowth == gameState.totalGrowth + dailyGrowth
  IN /\ q.pc = "daily_stats"
     /\ IF existing.val[1] # None
        THEN /\ reqs' = [reqs EXCEPT ![r] = [q EXCEPT !.pc = "done", !.res = "ok"]]
             /\ UNCHANGED redis
        ELSE /\ \E o \in saveDailyGrowthStats(World, q.sub, Today, dailyStats) :
                  redis' = o.w.kv
             /\ reqs' = [reqs EXCEPT ![r] =
                  [q EXCEPT !.updates =
                              [totalGrowth |-> newTotalGrowth,
                               treeLevel |-> growthCalculateTreeLevel(newTotalGrowth),
                               lastGrowthCalculation |-> now],
                            !.pc = "update_get"]]
     /\ UNCHANGED <<scheduler, client, nextId, now, faultsLeft, last, cdSet, done, steps, limit>>

\* updateGameState: await this.getGameState(subredditName), then the merge
UpdateGet(r) ==
  LET q == reqs[r]
  IN /\ q.pc = "update_get"
     /\ redis.state[q.sub] # None
     /\ reqs' = [reqs EXCEPT ![r] =
          [q EXCEPT !.write = mergedGameState(redis.state[q.sub][1], q.updates),
                    !.pc = "update_set"]]
     /\ UNCHANGED <<scheduler, client, redis, nextId, now, faultsLeft, last, cdSet, done, steps, limit>>

\* updateGameState: await this.saveGameState(updatedState)
UpdateSet(r) ==
  LET q == reqs[r]
  IN /\ q.pc = "update_set"
     /\ redis' = [redis EXCEPT !.state[q.sub] = Some([q.write EXCEPT !.updatedAt = now])]
     /\ reqs' = [reqs EXCEPT ![r] =
          IF q.op = "action" THEN [q EXCEPT !.pc = "cooldown_set"]
          ELSE [q EXCEPT !.pc = "done", !.res = "ok"]]
     /\ UNCHANGED <<scheduler, client, nextId, now, faultsLeft, last, cdSet, done, steps, limit>>

\* await redisGameService.setActionCooldown(username, subreddit, 60000)
CooldownSet(r) ==
  LET q == reqs[r]
  IN /\ q.pc = "cooldown_set"
     /\ \E o \in setActionCooldown(World, q.user, q.sub, ACTION_COOLDOWN_MS) :
          redis' = o.w.kv
     /\ reqs' = [reqs EXCEPT ![r] = [q EXCEPT !.pc = "done", !.res = "Success"]]
     /\ UNCHANGED <<scheduler, client, nextId, now, faultsLeft, last, cdSet, done, steps, limit>>

InitRace ==
  /\ now = 0
  /\ redis = RaceStore
  /\ nextId = 1
  /\ faultsLeft = 0
  /\ last = Call("none", "", "", "", 0, "")
  /\ cdSet = [k \in PlayerKeys |-> None]
  /\ done = [s \in Subs |-> [t \in ActionTypes |-> 0]]
  /\ steps = 0
  /\ limit = 0
  /\ reqs = [r \in 1..MaxRaceRequests |-> RaceRequest("", "", "", "", 0)]
  /\ scheduler = NewScheduler
  /\ client = NoCache

NextRace ==
  \/ \E r \in DOMAIN reqs, input \in RaceInputs : StartRace(r, input)
  \/ \E r \in DOMAIN reqs : Guards(r)
  \/ \E r \in DOMAIN reqs : HistoryGet(r)
  \/ \E r \in DOMAIN reqs : HistorySet(r)
  \/ \E r \in DOMAIN reqs : Award(r)
  \/ \E r \in DOMAIN reqs : StateGet(r)
  \/ \E r \in DOMAIN reqs : DailyStats(r)
  \/ \E r \in DOMAIN reqs : UpdateGet(r)
  \/ \E r \in DOMAIN reqs : UpdateSet(r)
  \/ \E r \in DOMAIN reqs : CooldownSet(r)

SpecRace == InitRace /\ [][NextRace]_vars

\* C4: the totalGrowth stored for a subreddit never decreases: every value
\* written under the state key is at least the value it replaces, also when
\* requests run concurrently.
C4_TotalGrowthMonotone ==
  [][ \A s \in Subs :
        (redis.state[s] # None /\ redis'.state[s] # None) =>
          redis'.state[s][1].totalGrowth >= redis.state[s][1].totalGrowth ]_vars

----------------------------------------------------------------------------
(* SpecRoute: the action routes and processPlayerAction, one request at a  *)
(* time, with the clock advancing between requests.                        *)

MaxRouteSteps == 2
MaxRouteClock == 60000

RouteTicks == {ACTION_COOLDOWN_MS}

RoutePlayers == {<<"alice", "testsub">>, <<"alice", "othersub">>, <<"bob", "testsub">>}

\* the store after GET /api/init/:subreddit by each of RoutePlayers
RouteStore ==
  LET fresh == [kv |-> EmptyStore, ids |-> 1, faults |-> 0]
      a == CHOOSE o \in initializePlayerSession(fresh, "alice", "testsub") : TRUE
      b == CHOOSE o \in initializePlayerSession(a.w, "alice", "othersub") : TRUE
      c == CHOOSE o \in initializePlayerSession(b.w, "bob", "testsub") : TRUE
  IN c.w.kv

\* the cooldown a successful request has set
Stamped(response, k, durationMs) ==
  IF response = "Success" THEN [cdSet EXCEPT ![k] = Some(<<now, durationMs>>)]
  ELSE cdSet

ActionRoute(u, s, t) ==
  /\ steps < limit
  /\ \E o \in actionRoute(World, u, s, t) :
       /\ Commit(o, Call("actionRoute", u, s, t, 0, o.val[1]))
       /\ cdSet' = Stamped(o.val[1], <<u, s>>, ACTION_COOLDOWN_MS)
  /\ UNCHANGED <<scheduler, client, now, done, reqs>>

PostRoute(u, s, canPost, posted) ==
  /\ steps < limit
  /\ \E o \in postRoute(World, u, s, canPost, posted) :
       /\ Commit(o, Call("postRoute", u, s, "post", 0, o.val[1]))
       /\ cdSet' = Stamped(o.val[1], <<u, s>>, POST_COOLDOWN_MS)
  /\ UNCHANGED <<scheduler, client, now, done, reqs>>

ProcessPlayerAction(u, s, t) ==
  /\ steps < limit
  /\ \E o \in processPlayerAction(World, u, s, t) :
       /\ Commit(o, Call("processPlayerAction", u, s, t, 0, o.val[1]))
       /\ cdSet' = Stamped(o.val[1], <<u, s>>, ACTION_COOLDOWN_MS)
  /\ UNCHANGED <<scheduler, client, now, done, reqs>>

\* time passes between two requests
RouteTick(d) ==
  /\ now + d <= MaxRouteClock
  /\ now' = now + d
  /\ UNCHANGED <<scheduler, client, redis, nextId, faultsLeft, last, cdSet, done, steps, limit, reqs>>

InitRoute ==
  /\ now = 0
  /\ redis = RouteStore
  /\ nextId = 1
  /\ faultsLeft = 0
  /\ last = Call("none", "", "", "", 0, "")
  /\ cdSet = [k \in PlayerKeys |-> None]
  /\ done = [s \in Subs |-> [t \in ActionTypes |-> 0]]
  /\ steps = 0
  /\ limit = MaxRouteSteps
  /\ reqs = NoReqs
  /\ scheduler = NewScheduler
  /\ client = NoCache

NextRoute ==
  \/ \E k \in RoutePlayers, t \in {"plant", "feed", "charge"} :
       ActionRoute(k[1], k[2], t)
  \/ \E k \in RoutePlayers, canPost \in BOOLEAN, posted \in BOOLEAN :
       PostRoute(k[1], k[2], canPost, posted)
  \/ \E k \in RoutePlayers, t \in ActionTypes : ProcessPlayerAction(k[1], k[2], t)
  \/ \E d \in RouteTicks : RouteTick(d)

SpecRoute == InitRoute /\ [][NextRoute]_vars

\* a step that is one whole request
IsRequest ==
  /\ steps' = steps + 1
  /\ last'.op \in {"actionRoute", "postRoute", "processPlayerAction"}

\* the resources, the history and the game states are as they were
NothingCarriedOut ==
  /\ redis'.resources = redis.resources
  /\ redis'.actions = redis.actions
  /\ redis'.state = redis.state

\* C5: a request rejected as InsufficientResources or OnCooldown debits
\* nothing, appends no history entry, leaves the game state as it was and
\* sets no cooldown (it may clear an expired one).
C5_RejectionWritesNothing ==
  [][ (IsRequest /\ last'.res \in {"InsufficientResources", "OnCooldown"}) =>
        /\ NothingCarriedOut
        /\ \A k \in PlayerKeys :
             redis'.cooldown[k] = redis.cooldown[k] \/ redis'.cooldown[k] = None ]_vars

\* processPlayerAction found the cooldown of an earlier plant expired,
\* cleared it, and then rejected a charge the player could not afford
C5_Witness ==
  /\ last.op = "processPlayerAction" /\ last.arg = "charge"
  /\ last.res = "InsufficientResources"
  /\ cdSet[<<last.user, last.sub>>] = Some(<<0, ACTION_COOLDOWN_MS>>)
  /\ redis.cooldown[<<last.user, last.sub>>] = None
  /\ redis.resources[<<last.user, last.sub>>][1].cinnamon = 5 * CinnamonScale
  /\ Len(redis.actions[last.sub]) = 1

\* the key holds a cooldown that has not expired
OnCooldownNow(k) ==
  /\ redis.cooldown[k] # None
  /\ now < parseInt(redis.cooldown[k][1])

\* a successful plant, feed or charge of the player has set the cooldown the
\* key holds, and it has not expired
BlockedByAction(k) ==
  /\ OnCooldownNow(k)
  /\ cdSet[k] # None
  /\ cdSet[k][1][2] = ACTION_COOLDOWN_MS

\* requests of other players, and of the player in other subreddits, are
\* neither blocked by the cooldown nor change it
OthersNotBlocked ==
  LET k == <<last'.user, last'.sub>>
  IN /\ ~OnCooldownNow(k) => last'.res # "OnCooldown"
     /\ \A j \in PlayerKeys \ {k} : redis'.cooldown[j] = redis.cooldown[j]

\* C10, as stated: after a successful plant, feed or charge by u in s, every
\* action of any type requested by u in s before the stored expiry is
\* rejected as on cooldown; other players and other subreddits are not
\* blocked.
C10_RejectedAsOnCooldown ==
  [][ IsRequest =>
        /\ BlockedByAction(<<last'.user, last'.sub>>) => last'.res = "OnCooldown"
        /\ OthersNotBlocked ]_vars

\* C10, amended: after a successful plant, feed or charge by u in s, every
\* action of any type requested by u in s before the stored expiry is
\* rejected and not carried out: as on cooldown, or, on the plant, feed and
\* charge routes, which check affordability first, as InsufficientResources
\* when u cannot afford it; other players and other subreddits are not blocked.
C10_RejectedWhileOnCooldown ==
  [][ IsRequest =>
        /\ BlockedByAction(<<last'.user, last'.sub>>) =>
             /\ \/ last'.res = "OnCooldown"
                \/ /\ last'.op = "actionRoute"
                   /\ last'.res = "InsufficientResources"
                   /\ redis.resources[<<last'.user, last'.sub>>][1].cinnamon
                        < getActionCost(last'.arg)
             /\ NothingCarriedOut
             /\ redis'.cooldown = redis.cooldown
        /\ OthersNotBlocked ]_vars

\* after a plant the same player's feed on the same subreddit was rejected as
\* on cooldown, the cooldown of the plant still being stored
C10_Witness ==
  /\ last.op = "actionRoute" /\ last.arg = "feed" /\ last.res = "OnCooldown"
  /\ cdSet[<<last.user, last.sub>>] = Some(<<0, ACTION_COOLDOWN_MS>>)
  /\ redis.cooldown[<<last.user, last.sub>>] = Some(toString(ACTION_COOLDOWN_MS))
  /\ redis.actions[last.sub][1].actionType = "plant"
  /\ redis.resources[<<last.user, last.sub>>][1].cinnamon = 5 * CinnamonScale

----------------------------------------------------------------------------
(* SpecCooldown: setActionCooldown and checkActionCooldown as time passes. *)

MaxCooldownSteps == 4

CooldownTicks == {1, ACTION_COOLDOWN_MS - 1}

CooldownDurations == {ACTION_COOLDOWN_MS, 1}

CooldownPlayers == {<<"alice", "testsub">>, <<"bob", "testsub">>}

SetActionCooldown(u, s, d) ==
  /\ steps < limit
  /\ \E o \in setActionCooldown(World, u, s, d) :
       /\ Commit(o, Call("setActionCooldown", u, s, "", d, Result(o)))
       /\ cdSet' = [cdSet EXCEPT ![<<u, s>>] = Some(<<now, d>>)]
  /\ UNCHANGED <<scheduler, client, now, done, reqs>>

\* last.n is 1 when the check answered true, 0 when it answered false
CheckActionCooldown(u, s) ==
  /\ steps < limit
  /\ \E o \in checkActionCooldown(World, u, s) :
       Commit(o, Call("checkActionCooldown", u, s, "",
                      IF o.ok /\ o.val[1] THEN 1 ELSE 0, Result(o)))
  /\ UNCHANGED <<scheduler, client, now, cdSet, done, reqs>>

CooldownTick(d) ==
  /\ steps < limit
  /\ now' = now + d
  /\ last' = Call("tick", "", "", "", d, "")
  /\ steps' = steps + 1
  /\ UNCHANGED <<scheduler, client, redis, nextId, faultsLeft, cdSet, done, limit, reqs>>

InitCooldown == InitWith(0, MaxCooldownSteps)

NextCooldown ==
  \/ \E k \in CooldownPlayers, d \in CooldownDurations :
       SetActionCooldown(k[1], k[2], d)
  \/ \E k \in CooldownPlayers : CheckActionCooldown(k[1], k[2])
  \/ \E d \in CooldownTicks : CooldownTick(d)

SpecCooldown == InitCooldown /\ [][NextCooldown]_vars

\* C9: after setActionCooldown(u, s, d) at time t, a check before t + d
\* answers true and keeps the key; the first check at or after t + d answers
\* false and deletes the key; a check with no key stored answers false.
C9_CooldownExpiry ==
  [][ (last'.op = "checkActionCooldown" /\ steps' = steps + 1) =>
        LET k == <<last'.user, last'.sub>>
        IN /\ last'.res = "ok"
           /\ IF redis.cooldown[k] = None
              THEN last'.n = 0 /\ redis'.cooldown[k] = None
              ELSE /\ cdSet[k] # None
                   /\ IF now < cdSet[k][1][1] + cdSet[k][1][2]
                      THEN last'.n = 1 /\ redis'.cooldown[k] = redis.cooldown[k]
                      ELSE last'.n = 0 /\ redis'.cooldown[k] = None ]_vars

\* a cooldown of one minute set at time 0 was checked at 60000, the instant
\* it expires: the check answered false and the key is gone
C9_Witness ==
  /\ last.op = "checkActionCooldown" /\ last.n = 0
  /\ cdSet[<<last.user, last.sub>>] = Some(<<0, ACTION_COOLDOWN_MS>>)
  /\ now = ACTION_COOLDOWN_MS
  /\ redis.cooldown[<<last.user, last.sub>>] = None

----------------------------------------------------------------------------
(* SpecScenario: successful plant, feed and charge actions recorded one at *)
(* a time on a freshly initialized subreddit.                              *)

MaxCharges == 17
MaxOthers == 1

\* the store after initializeGameState("testsub")
ScenarioStore ==
  LET fresh == [kv |-> EmptyStore, ids |-> 1, faults |-> 0]
      made == CHOOSE o \in initializeGameState(fresh, "testsub") : o.ok
  IN made.w.kv

\* the recordAction call of a route whose guards and debit have passed
ScenarioAction(u, s, t) ==
  /\ t = "charge" => done[s]["charge"] < MaxCharges
  /\ t # "charge" => done[s]["plant"] + done[s]["feed"] < MaxOthers
  /\ \E o \in recordAction(World,
                 [username |-> u, subredditName |-> s, actionType |-> t,
                  resourcesSpent |-> getActionCost(t),
                  growthContributed |-> routeGrowthContribution(t)]) :
       /\ Commit(o, Call("recordAction", u, s, t, routeGrowthContribution(t),
                         Result(o)))
       /\ done' = IF o.ok THEN [done EXCEPT ![s][t] = @ + 1] ELSE done
  /\ UNCHANGED <<scheduler, client, now, cdSet, reqs>>

InitScenario ==
  /\ now = 0
  /\ redis = ScenarioStore
  /\ nextId = 1
  /\ faultsLeft = 0
  /\ last = Call("none", "", "", "", 0, "")
  /\ cdSet = [k \in PlayerKeys |-> None]
  /\ done = [s \in Subs |-> [t \in ActionTypes |-> 0]]
  /\ steps = 0
  /\ limit = 0
  /\ reqs = NoReqs
  /\ scheduler = NewScheduler
  /\ client = NoCache

NextScenario ==
  \E t \in {"plant", "feed", "charge"} : ScenarioAction("alice", "testsub", t)

SpecScenario == InitScenario /\ [][NextScenario]_vars

\* C7: on a freshly initialized subreddit, after every successful action
\* totalGrowth = 1.5 * plants + 2 * feeds + 3 * charges and treeLevel is the
\* level of that totalGrowth; one plant gives seedsPlanted 1, totalGrowth 1.5
\* and level 1; charges alone give level 1 up to the 16th and totalGrowth 51
\* with level 2 at the 17th.
C7_GrowthScenario ==
  LET state == redis.state["testsub"][1]
      plants == done["testsub"]["plant"]
      feeds == done["testsub"]["feed"]
      charges == done["testsub"]["charge"]
  IN /\ state.totalGrowth = 150 * plants + 200 * feeds + 300 * charges
     /\ state.treeLevel = LevelOf(state.totalGrowth)
     /\ state.seedsPlanted = plants
     /\ state.spiritsFed = feeds
     /\ state.robotCharged = charges
     /\ (plants = 1 /\ feeds = 0 /\ charges = 0) =>
          (state.seedsPlanted = 1 /\ state.totalGrowth = 150 /\ state.treeLevel = 1)
     /\ (plants = 0 /\ feeds = 0 /\ charges <= 16) => state.treeLevel = 1
     /\ (plants = 0 /\ feeds = 0 /\ charges = 17) =>
          (state.totalGrowth = 51 * GrowthScale /\ state.treeLevel = 2)

\* the 17th charge in a row has been recorded
C7_Witness ==
  /\ last.op = "recordAction" /\ last.arg = "charge" /\ last.res = "ok"
  /\ done["testsub"] = [plant |-> 0, feed |-> 0, charge |-> 17, post |-> 0]
  /\ Len(redis.actions["testsub"]) = 17
  /\ redis.state["testsub"][1].treeLevel = 2

------------------------------------------------------------

----------------------------------------------------------------------------
(* SpecHistory: recordAction on a full history while store operations     *)
(* fail.                                                                   *)

MaxHistorySteps == 2
MaxHistoryFaults == 3

\* the store after initializeGameState("testsub") and n recorded posts:
\* recordAction has given them the ids 1..n and keeps the newest first; a
\* post changes neither the counters nor totalGrowth
HistoryStore(n) ==
  [ScenarioStore EXCEPT !.actions["testsub"] =
     [i \in 1..n |->
        [username |-> "alice", subredditName |-> "testsub", actionType |-> "post",
         resourcesSpent |-> getActionCost("post"),
         growthContributed |-> routeGrowthContribution("post"),
         id |-> n + 1 - i, timestamp |-> now]]]

HistoryAction(u, s, t) ==
  /\ steps < limit
  /\ \E o \in recordAction(World,
                 [username |-> u, subredditName |-> s, actionType |-> t,
                  resourcesSpent |-> getActionCost(t),
                  growthContributed |-> routeGrowthContribution(t)]) :
       /\ Commit(o, Call("recordAction", u, s, t, routeGrowthContribution(t),
                         Result(o)))
       /\ done' = IF o.ok THEN [done EXCEPT ![s][t] = @ + 1] ELSE done
  /\ UNCHANGED <<scheduler, client, now, cdSet, reqs>>

InitHistory ==
  /\ now = 0
  /\ redis = HistoryStore(HISTORY_CAP)
  /\ nextId = HISTORY_CAP + 1
  /\ faultsLeft = MaxHistoryFaults
  /\ last = Call("none", "", "", "", 0, "")
  /\ cdSet = [k \in PlayerKeys |-> None]
  /\ done = [s \in Subs |-> [t \in ActionTypes |-> 0]]
  /\ steps = 0
  /\ limit = MaxHistorySteps
  /\ reqs = NoReqs
  /\ scheduler = NewScheduler
  /\ client = NoCache

NextHistory == \E t \in ActionTypes : HistoryAction("alice", "testsub", t)

SpecHistory == InitHistory /\ [][NextHistory]_vars

\* C8: a history never holds more than 1000 entries and is newest-first;
\* a recordAction that returns has put its entry at the front, and on a
\* history of 1000 entries the result has exactly 1000: the last (oldest)
\* entry is evicted and all the others are kept in their order.
C8_BoundedHistory ==
  [][ /\ \A s \in Subs :
           /\ Len(redis'.actions[s]) <= HISTORY_CAP
           /\ \A i \in 1..(Len(redis'.actions[s]) - 1) :
                redis'.actions[s][i].id > redis'.actions[s][i + 1].id
      /\ (last'.op = "recordAction" /\ last'.res = "ok" /\ steps' = steps + 1) =>
           LET before == redis.actions[last'.sub]
               after == redis'.actions[last'.sub]
           IN /\ after[1].id = nextId' - 1
              /\ after[1].actionType = last'.arg
              /\ IF Len(before) = HISTORY_CAP
                 THEN /\ Len(after) = HISTORY_CAP
                      /\ SubSeq(after, 2, HISTORY_CAP)
                           = SubSeq(before, 1, HISTORY_CAP - 1)
                 ELSE after = <<after[1]>> \o before ]_vars

----------------------------------------------------------------------------
(* SpecInitialize: initializeGameState called again and again while time   *)
(* passes, actions are recorded and store operations fail.                 *)

MaxInitializeSteps == 3
MaxInitializeFaults == 3

InitializeTicks == {1000}

\* time passes between two calls
InitializeTick(d) ==
  /\ steps < limit
  /\ now' = now + d
  /\ steps' = steps + 1
  /\ UNCHANGED <<scheduler, client, redis, nextId, faultsLeft, last, cdSet, done, limit, reqs>>

InitInitialize == InitWith(MaxInitializeFaults, MaxInitializeSteps)

NextInitialize ==
  \/ \E s \in Subs : InitializeGameState(s)
  \/ \E s \in Subs : RecordAction("alice", s, "plant")
  \/ \E d \in InitializeTicks : InitializeTick(d)

SpecInitialize == InitInitialize /\ [][NextInitialize]_vars

\* C11: initializeGameState on a subreddit that has a GameState writes
\* nothing and, when it resolves, returns the stored record (it resolves
\* whenever no store operation fails); two calls in sequence on a subreddit
\* return the same record, whatever time passed between them.
C11_InitializeIdempotent ==
  [][ (last'.op = "initializeGameState" /\ steps' = steps + 1 /\ now' = now) =>
        /\ redis.state[last'.sub] # None =>
              /\ redis' = redis
              /\ last'.res = "ok" => last'.val = redis.state[last'.sub]
              /\ faultsLeft' = faultsLeft => last'.res = "ok"
        /\ (last.op = "initializeGameState" /\ last.sub = last'.sub
              /\ last.res = "ok" /\ last'.res = "ok") => last'.val = last.val ]_vars

\* the second of two calls, made a second after the first created the state,
\* returned the record created by the first
C11_Witness ==
  /\ last.op = "initializeGameState" /\ last.res = "ok"
  /\ last.val = redis.state[last.sub]
  /\ last.val[1].createdAt < last.n
  /\ last.val[1].seedsPlanted = 0
  /\ Len(redis.actions[last.sub]) = 0

----------------------------------------------------------------------------
(* SpecDaily: daily growth processed and read while the days pass, plants  *)
(* are recorded and store operations fail.                                 *)

MaxDailySteps == 4
MaxDailyFaults == 3

DailyTicks == {ONE_HOUR_MS, DAY_MS}

GetDailyStats(s) ==
  /\ steps < limit
  /\ \E o \in getDailyStats(World, s) :
       Commit(o, Returning(Call("getDailyStats", "", s, "", 0, Result(o)), o))
  /\ UNCHANGED <<scheduler, client, now, cdSet, done, reqs>>

\* time passes between two calls
DailyTick(d) ==
  /\ steps < limit
  /\ now' = now + d
  /\ steps' = steps + 1
  /\ UNCHANGED <<scheduler, client, redis, nextId, faultsLeft, last, cdSet, done, limit, reqs>>

InitDaily ==
  /\ now = 0
  /\ redis = ScenarioStore
  /\ nextId = 1
  /\ faultsLeft = MaxDailyFaults
  /\ last = Call("none", "", "", "", 0, "")
  /\ cdSet = [k \in PlayerKeys |-> None]
  /\ done = [s \in Subs |-> [t \in ActionTypes |-> 0]]
  /\ steps = 0
  /\ limit = MaxDailySteps
  /\ reqs = NoReqs
  /\ scheduler = NewScheduler
  /\ client = NoCache

NextDaily ==
  \/ \E s \in Subs : ProcessDailyGrowth(s)
  \/ \E s \in Subs : GetDailyStats(s)
  \/ RecordAction("alice", "testsub", "plant")
  \/ \E d \in DailyTicks : DailyTick(d)

SpecDaily == InitDaily /\ [][NextDaily]_vars

\* the snapshots stored for subreddit s under date
StoredStats(kv, s, date) == {d \in kv.daily[s] : d.date = date}

\* C13: once a snapshot is stored for a subreddit and date it is never
\* changed or removed; a processDailyGrowth or getDailyStats made on a date
\* that has one changes nothing in the store and returns exactly that
\* snapshot; a processDailyGrowth that succeeds on a date without one stores
\* the snapshot it returns, taken from the counters of the GameState.
C13_DailySnapshot ==
  [][ /\ \A s \in Subs : redis.daily[s] \subseteq redis'.daily[s]
      /\ \A s \in Subs : \A d, e \in redis'.daily[s] : d.date = e.date => d = e
      /\ (last'.op \in {"processDailyGrowth", "getDailyStats"}
          /\ steps' = steps + 1 /\ now' = now) =>
           LET s == last'.sub
               stored == StoredStats(redis, s, Today)
           IN IF stored # {}
              THEN /\ redis' = redis
                   /\ last'.res = "ok" => last'.val[1] \in stored
                   /\ faultsLeft' = faultsLeft => last'.res = "ok"
              ELSE (last'.op = "processDailyGrowth" /\ last'.res = "ok") =>
                     /\ StoredStats(redis', s, Today) = {last'.val[1]}
                     /\ redis.state[s] # None
                     /\ last'.val[1].seedsPlanted = redis.state[s][1].seedsPlanted
                     /\ last'.val[1].totalGrowth
                          = calculateGrowth(redis.state[s][1].seedsPlanted,
                                            redis.state[s][1].spiritsFed,
                                            redis.state[s][1].robotCharged,
                                            redis.state[s][1].dailyUpvotes) ]_vars

\* a second processDailyGrowth on the same day returned the snapshot taken
\* before a plant was recorded
C13_Witness ==
  /\ last.op = "processDailyGrowth" /\ last.res = "ok"
  /\ done["testsub"]["plant"] = 1
  /\ redis.state["testsub"][1].seedsPlanted = 1
  /\ redis.state["testsub"][1].totalGrowth = 150
  /\ last.val[1].seedsPlanted = 0
  /\ last.val[1] \in redis.daily["testsub"]
  /\ Cardinality(redis.daily["testsub"]) = 1

----------------------------------------------------------------------------
(* SpecRetry: single repository calls with their traces, on a store where  *)
(* operations fail and one stored GameState does not have the shape of a   *)
(* GameState.  A behaviour is one call.                                    *)

MaxRetryFaults == 3

TracedWorld == World @@ [log |-> <<>>]

\* the store after initializePlayerSession("alice", "testsub")
RetryStore ==
  LET fresh == [kv |-> EmptyStore, ids |-> 1, faults |-> 0]
      joined == CHOOSE o \in initializePlayerSession(fresh, "alice", "testsub") : o.ok
  IN joined.w.kv

\* the same store holding under othersub a record that isGameState rejects
MalformedStore ==
  [RetryStore EXCEPT !.state["othersub"] = Some([subredditName |-> "othersub"])]

RetrySpendInputs == {30, 110}

RetryGetGameState(s) ==
  /\ steps < limit
  /\ \E o \in getGameState(TracedWorld, s) :
       Commit(o, Traced(Call("getGameState", "", s, "", 0, Result(o)), o))
  /\ UNCHANGED <<scheduler, client, now, cdSet, done, reqs>>

RetryUpdateGameState(s) ==
  /\ steps < limit
  /\ \E o \in updateGameState(TracedWorld, s, [dailyUpvotes |-> 7]) :
       Commit(o, Traced(Call("updateGameState", "", s, "", 0, Result(o)), o))
  /\ UNCHANGED <<scheduler, client, now, cdSet, done, reqs>>

RetryRecordAction(u, s, t) ==
  /\ steps < limit
  /\ \E o \in recordAction(TracedWorld,
                 [username |-> u, subredditName |-> s, actionType |-> t,
                  resourcesSpent |-> getActionCost(t),
                  growthContributed |-> routeGrowthContribution(t)]) :
       Commit(o, Traced(Call("recordAction", u, s, t, 0, Result(o)), o))
  /\ UNCHANGED <<scheduler, client, now, cdSet, done, reqs>>

RetryUpdatePlayerResources(u, s) ==
  /\ steps < limit
  /\ \E o \in updatePlayerResources(TracedWorld, u, s, [seeds |-> 1]) :
       Commit(o, Traced(Call("updatePlayerResources", u, s, "", 0, Result(o)), o))
  /\ UNCHANGED <<scheduler, client, now, cdSet, done, reqs>>

RetrySpendCinnamon(u, s, amount) ==
  /\ steps < limit
  /\ \E o \in spendCinnamon(TracedWorld, u, s, amount) :
       Commit(o, Traced(Call("spendCinnamon", u, s, "", amount, Result(o)), o))
  /\ UNCHANGED <<scheduler, client, now, cdSet, done, reqs>>

RetryProcessActionTransaction(u, s, t) ==
  /\ steps < limit
  /\ \E o \in processActionTransaction(TracedWorld, u, s, t) :
       Commit(o, Traced(Call("processActionTransaction", u, s, t, getActionCost(t),
                             Result(o)), o))
  /\ UNCHANGED <<scheduler, client, now, cdSet, done, reqs>>

InitRetry ==
  /\ now = 0
  /\ redis \in {RetryStore, MalformedStore}
  /\ nextId = 1
  /\ faultsLeft \in 0..MaxRetryFaults
  /\ last = Call("none", "", "", "", 0, "")
  /\ cdSet = [k \in PlayerKeys |-> None]
  /\ done = [s \in Subs |-> [t \in ActionTypes |-> 0]]
  /\ steps = 0
  /\ limit = 1
  /\ reqs = NoReqs
  /\ scheduler = NewScheduler
  /\ client = NoCache

NextRetry ==
  \/ \E s \in Subs : RetryGetGameState(s)
  \/ \E s \in Subs : RetryUpdateGameState(s)
  \/ RetryRecordAction("alice", "testsub", "plant")
  \/ \E u \in Users : RetryUpdatePlayerResources(u, "testsub")
  \/ \E u \in Users, amount \in RetrySpendInputs : RetrySpendCinnamon(u, "testsub", amount)
  \/ \E u \in Users : RetryProcessActionTransaction(u, "testsub", "charge")

SpecRetry == InitRetry /\ [][NextRetry]_vars

\* the store operations and the delays of the last call
StoreOps(log) == SelectSeq(log, LAMBDA e : e.ev # "wait")
Waits(log) == SelectSeq(log, LAMBDA e : e.ev = "wait")
DelaysOf(log) == [i \in 1..Len(Waits(log)) |-> Waits(log)[i].ms]
NoStoreFailure(log) == \A i \in 1..Len(log) : log[i].ok

\* C14: getGameState, which is withRetry around one read, reads at most 3
\* times, stops at the first attempt that succeeds, sleeps 1000 ms after the
\* first failure and 2000 ms after the second and nothing after the third,
\* and then throws the connection error wrapping the last failure's message;
\* a stored record of the wrong shape is read 3 times before the error
\* surfaces.
C14_RetryPolicy ==
  last.op = "getGameState" =>
    LET log == last.log
        reads == StoreOps(log)
        failures == IF last.res = "ok" THEN Len(reads) - 1 ELSE Len(reads)
        malformed == /\ redis.state[last.sub] # None
                     /\ ~isGameState(redis.state[last.sub][1])
    IN /\ Len(reads) >= 1 /\ Len(reads) <= 3
       /\ \A i \in 1..Len(log) :
            log[i].ev = IF i % 2 = 1 THEN "get" ELSE "wait"
       /\ log[Len(log)].ev = "get"
       /\ DelaysOf(log) = SubSeq(<<1000, 2000>>, 1, Len(reads) - 1)
       /\ last.res = "ok" =>
            /\ reads[Len(reads)].ok
            /\ \A i \in 1..(Len(reads) - 1) : ~reads[i].ok
       /\ last.res # "ok" =>
            /\ failures = 3
            /\ last.msg = <<REDIS_CONNECTION_ERROR,
                            IF reads[3].ok THEN "InvalidGameState"
                            ELSE "StoreUnavailable">>
       /\ malformed => last.res # "ok"
       /\ (malformed /\ NoStoreFailure(log)) =>
            /\ Len(reads) = 3
            /\ last.res = "InvalidGameState"

\* the malformed record of othersub was read three times, with the two
\* delays between the reads, and no store operation failed
C14_Witness ==
  /\ last.op = "getGameState" /\ last.sub = "othersub"
  /\ last.res = "InvalidGameState"
  /\ Len(last.log) = 5
  /\ NoStoreFailure(last.log)
  /\ DelaysOf(last.log) = <<1000, 2000>>
  /\ last.msg = <<REDIS_CONNECTION_ERROR, "InvalidGameState">>

\* the reads of one key in a trace
ReadsOf(log, field, key) ==
  SelectSeq(log, LAMBDA e : e.ev = "get" /\ e.field = field /\ e.key = key)

\* C15: an updateGameState or updatePlayerResources that ends in NotFound and
\* a spendCinnamon that ends in NotFound or InsufficientResources, no store
\* operation having failed, have run their body once (one read of the
\* record) and have slept no backoff delay.
C15_SurfacesImmediately ==
  (/\ last.op \in {"updateGameState", "updatePlayerResources", "spendCinnamon"}
   /\ last.res \in {"NotFound", "InsufficientResources"}
   /\ NoStoreFailure(last.log)) =>
     /\ Waits(last.log) = <<>>
     /\ IF last.op = "updateGameState"
        THEN Len(ReadsOf(last.log, "state", last.sub)) = 1
        ELSE Len(ReadsOf(last.log, "resources", <<last.user, last.sub>>)) = 1

----------------------------------------------------------------------------
(* SpecCeiling: the same single calls with enough store failures for the   *)
(* retry loops that a call nests to run out one inside the other.          *)

MaxCeilingFaults == 9

InitCeiling ==
  /\ now = 0
  /\ redis = RetryStore
  /\ nextId = 1
  /\ faultsLeft = MaxCeilingFaults
  /\ last = Call("none", "", "", "", 0, "")
  /\ cdSet = [k \in PlayerKeys |-> None]
  /\ done = [s \in Subs |-> [t \in ActionTypes |-> 0]]
  /\ steps = 0
  /\ limit = 1
  /\ reqs = NoReqs
  /\ scheduler = NewScheduler
  /\ client = NoCache

NextCeiling ==
  \/ RetryGetGameState("testsub")
  \/ RetryUpdateGameState("testsub")
  \/ RetryRecordAction("alice", "testsub", "plant")
  \/ \E amount \in RetrySpendInputs : RetrySpendCinnamon("alice", "testsub", amount)
  \/ RetryProcessActionTransaction("alice", "testsub", "charge")

SpecCeiling == InitCeiling /\ [][NextCeiling]_vars

\* the attempts a trace holds of the store operation of event e
AttemptsOf(log, e) ==
  SelectSeq(log, LAMBDA f : f.ev = e.ev /\ f.field = e.field /\ f.key = e.key)

KeepsFailing(log, e) ==
  \A i \in 1..Len(AttemptsOf(log, e)) : ~AttemptsOf(log, e)[i].ok

\* C16: in a call of getGameState, updateGameState, recordAction,
\* spendCinnamon or processActionTransaction that fails, a store operation
\* that fails at every attempt has been attempted at most 3 times, and the
\* delays slept are the first ones of 1000, 2000, 4000 ms.
C16_RetryCeiling ==
  (/\ last.op \in {"getGameState", "updateGameState", "recordAction",
                    "spendCinnamon", "processActionTransaction"}
   /\ last.res # "ok") =>
     /\ \A i \in 1..Len(last.log) :
          (last.log[i].ev # "wait" /\ KeepsFailing(last.log, last.log[i])) =>
            Len(AttemptsOf(last.log, last.log[i])) <= 3
     /\ Len(DelaysOf(last.log)) <= 3
     /\ DelaysOf(last.log) = SubSeq(<<1000, 2000, 4000>>, 1, Len(DelaysOf(last.log)))

----------------------------------------------------------------------------
(* SpecPosting: RedditPostingService.postCommunityUpdate against a platform *)
(* that answers a submitPost in every way it can.                           *)

MaxPostingSteps == 3

\* post data with each required field present or empty
PostDataInputs ==
  [title : {"", "Garden update"}, content : {"", "The tree grew"},
   subredditName : {"", "testsub"}]

\* what reddit.submitPost does: it throws an Error with a message, throws
\* something that is not an Error, or returns nothing, a post without id or
\* a post with an id
PlatformAnswers ==
  { [kind |-> "throwsError", message |-> "", id |-> ""],
    [kind |-> "throwsError", message |-> "rate limited", id |-> ""],
    [kind |-> "throwsOther", message |-> "", id |-> ""],
    [kind |-> "returnsNothing", message |-> "", id |-> ""],
    [kind |-> "returnsPost", message |-> "", id |-> ""],
    [kind |-> "returnsPost", message |-> "", id |-> "t3_abc"] }

\* the body of the try block: threw tells whether it ended in a throw,
\* submitted holds the submitPost requests it made
postCommunityUpdateBody(postData, answer) ==
  IF postData.title = "" \/ postData.content = "" \/ postData.subredditName = ""
  THEN [threw |-> FALSE, thrown |-> answer, submitted |-> <<>>,
        result |-> [success |-> FALSE,
                    error |-> "Missing required post data (title, content, or subredditName)"]]
  ELSE LET request == [title |-> postData.title, text |-> postData.content,
                       subredditName |-> postData.subredditName,
                       sendreplies |-> TRUE]
       IN IF answer.kind \in {"throwsError", "throwsOther"}
          THEN [threw |-> TRUE, thrown |-> answer, submitted |-> <<request>>,
                result |-> <<>>]
          ELSE IF answer.kind = "returnsNothing" \/ answer.id = ""
          THEN [threw |-> FALSE, thrown |-> answer, submitted |-> <<request>>,
                result |-> [success |-> FALSE,
                            error |-> "Failed to create Reddit post - no post ID returned"]]
          ELSE [threw |-> FALSE, thrown |-> answer, submitted |-> <<request>>,
                result |-> [success |-> TRUE, postId |-> answer.id,
                            postUrl |-> <<"https://reddit.com/r/",
                                          postData.subredditName, "/comments/",
                                          answer.id>>]]

\* the try block without its catch
postCommunityUpdateUncaught(postData, answer) ==
  postCommunityUpdateBody(postData, answer)

\* catch (error): error.message of an Error, a fixed text otherwise
postCommunityUpdate(postData, answer) ==
  LET tried == postCommunityUpdateBody(postData, answer)
  IN IF ~tried.threw THEN tried
     ELSE [tried EXCEPT
             !.threw = FALSE,
             !.result = [success |-> FALSE,
                         error |-> IF tried.thrown.kind = "throwsError"
                                   THEN tried.thrown.message
                                   ELSE "Unknown error occurred while posting"]]

PostCommunityUpdate(postData, answer) ==
  /\ steps < limit
  /\ LET o == postCommunityUpdate(postData, answer)
     IN last' = [Call("postCommunityUpdate", "", postData.subredditName, "", 0,
                      IF o.threw THEN "threw" ELSE "ok")
                   EXCEPT !.val = Some([postData |-> postData, answer |-> answer,
                                        result |-> o.result]),
                          !.log = o.submitted]
  /\ steps' = steps + 1
  /\ UNCHANGED <<scheduler, client, redis, nextId, now, faultsLeft, cdSet, done, limit, reqs>>

InitPosting == InitWith(0, MaxPostingSteps)

NextPosting ==
  \E postData \in PostDataInputs, answer \in PlatformAnswers :
    PostCommunityUpdate(postData, answer)

SpecPosting == InitPosting /\ [][NextPosting]_vars

\* C17: postCommunityUpdate never throws; with a required field missing it
\* fails without a submitPost; when submitPost throws or returns no post id
\* it fails with an error field (the thrown Error's message, a fixed text
\* otherwise); it succeeds, with the post's id and URL, exactly when the
\* platform returned a post with an id.
C17_PostNeverThrows ==
  last.op = "postCommunityUpdate" =>
    LET postData == last.val[1].postData
        answer == last.val[1].answer
        result == last.val[1].result
        missing == \/ postData.title = "" \/ postData.content = ""
                   \/ postData.subredditName = ""
        posted == answer.kind = "returnsPost" /\ answer.id # ""
    IN /\ last.res = "ok"
       /\ missing => /\ ~result.success
                      /\ last.log = <<>>
                      /\ result.error # ""
       /\ (~missing /\ ~posted) =>
            /\ ~result.success
            /\ Len(last.log) = 1
            /\ "error" \in DOMAIN result
            /\ answer.kind = "throwsError" => result.error = answer.message
            /\ answer.kind # "throwsError" => result.error # ""
       /\ result.success <=> (~missing /\ posted)
       /\ result.success =>
            /\ result.postId = answer.id
            /\ result.postUrl = <<"https://reddit.com/r/", postData.subredditName,
                                   "/comments/", answer.id>>
            /\ Len(last.log) = 1

\* the platform threw on a complete post and the caller got a failure result
C17_Witness ==
  /\ last.op = "postCommunityUpdate" /\ last.res = "ok"
  /\ last.val[1].answer.kind = "throwsError"
  /\ last.val[1].answer.message = "rate limited"
  /\ Len(last.log) = 1
  /\ last.val[1].result = [success |-> FALSE, error |-> "rate limited"]

----------------------------------------------------------------------------
(* SpecScheduler: start and stop of the ChronicleScheduler in any order,   *)
(* with the armed timers firing.                                           *)

MaxSchedulerSteps == 8

\* setInterval(callback, ms): a new timer is armed and its handle returned
setInterval(sch, ms) ==
  [sch EXCEPT !.timers = @ \cup {[id |-> sch.nextTimer, ms |-> ms]},
              !.nextTimer = @ + 1,
              !.intervalId = Some(sch.nextTimer)]

\* clearInterval(handle)
clearInterval(sch, handle) ==
  [sch EXCEPT !.timers = {t \in @ : t.id # handle}]

\* start() without the isRunning guard
startUnguarded(sch) ==
  setInterval([sch EXCEPT !.isRunning = TRUE], checkInterval)

start(sch) ==
  IF sch.isRunning THEN sch
  ELSE setInterval([sch EXCEPT !.isRunning = TRUE], checkInterval)

stop(sch) ==
  IF ~sch.isRunning THEN sch
  ELSE LET stopped == [sch EXCEPT !.isRunning = FALSE]
       IN IF stopped.intervalId # None
          THEN [clearInterval(stopped, stopped.intervalId[1])
                  EXCEPT !.intervalId = None]
          ELSE stopped

getStatus(sch) == [isRunning |-> sch.isRunning, checkInterval |-> checkInterval]

SchedulerCall(op) ==
  /\ steps' = steps + 1
  /\ last' = [Call(op, "", "", "", 0, "ok") EXCEPT !.val = Some(getStatus(scheduler'))]
  /\ UNCHANGED <<redis, nextId, faultsLeft, cdSet, done, limit, reqs, client>>

Start ==
  /\ steps < limit
  /\ scheduler' = start(scheduler)
  /\ now' = now
  /\ SchedulerCall("start")

Stop ==
  /\ steps < limit
  /\ scheduler' = stop(scheduler)
  /\ now' = now
  /\ SchedulerCall("stop")

\* an armed timer fires: processAllSubreddits finds no active subreddit
\* (getActiveSubreddits returns []) and does nothing
TimerFires ==
  /\ steps < limit
  /\ \E t \in scheduler.timers : now' = now + t.ms
  /\ scheduler' = scheduler
  /\ SchedulerCall("processAllSubreddits")

InitScheduler == InitWith(0, MaxSchedulerSteps)

NextScheduler == Start \/ Stop \/ TimerFires

SpecScheduler == InitScheduler /\ [][NextScheduler]_vars

\* one interval timer of 60 seconds is armed when Running, none when Stopped
TimerMatchesState(sch) ==
  /\ sch.isRunning \in BOOLEAN
  /\ Cardinality(sch.timers) <= 1
  /\ sch.isRunning <=> sch.timers # {}
  /\ sch.isRunning =>
       sch.timers = {[id |-> sch.intervalId[1], ms |-> 60000]}
  /\ ~sch.isRunning => sch.intervalId = None

\* C18: the scheduler is Stopped or Running with a timer armed exactly when
\* Running and never more than one; start() while Stopped arms one
\* 60-second timer and moves to Running, stop() while Running clears it and
\* moves to Stopped, start() while Running and stop() while Stopped change
\* nothing, and getStatus reports the state.
C18_SchedulerStates ==
  [][ /\ TimerMatchesState(scheduler)
      /\ TimerMatchesState(scheduler')
      /\ last'.val = Some([isRunning |-> scheduler'.isRunning, checkInterval |-> 60000])
      /\ (last'.op = "start" /\ steps' = steps + 1) =>
           IF scheduler.isRunning THEN scheduler' = scheduler
           ELSE /\ scheduler'.isRunning
                /\ Cardinality(scheduler'.timers) = 1
      /\ (last'.op = "stop" /\ steps' = steps + 1) =>
           IF ~scheduler.isRunning THEN scheduler' = scheduler
           ELSE /\ ~scheduler'.isRunning
                /\ scheduler'.timers = {} ]_vars

\* start() was called on a running scheduler whose timer had already fired:
\* still one timer, the one armed by the first start
C18_Witness ==
  /\ last.op = "start"
  /\ scheduler.isRunning
  /\ scheduler.nextTimer = 2
  /\ scheduler.timers = {[id |-> 1, ms |-> 60000]}
  /\ now = 60000
  /\ steps = 3

----------------------------------------------------------------------------
(* State synchronisation: GET /api/state/:subreddit and the client that    *)
(* polls it.                                                               *)

MaxSyncSteps == 4

MIN_SUBREDDIT_NAME_LENGTH == 3
MAX_SUBREDDIT_NAME_LENGTH == 21

reservedNames == {"api", "www", "reddit", "admin", "mod", "all", "popular"}

\* A name that arrives with a request or from the Devvit context is the
\* sequence of its characters; the empty sequence is the name that is
\* undefined or ''. The name of a stored record is the string.
UpperCase ==
  <<"A", "B", "C", "D", "E", "F", "G", "H", "I", "J", "K", "L", "M",
    "N", "O", "P", "Q", "R", "S", "T", "U", "V", "W", "X", "Y", "Z">>

LowerCase ==
  <<"a", "b", "c", "d", "e", "f", "g", "h", "i", "j", "k", "l", "m",
    "n", "o", "p", "q", "r", "s", "t", "u", "v", "w", "x", "y", "z">>

Digits == {"0", "1", "2", "3", "4", "5", "6", "7", "8", "9"}

WhiteSpace == {" "}

\* String.prototype.toLowerCase
toLowerCase(chars) ==
  [i \in 1..Len(chars) |->
     IF \E j \in 1..26 : UpperCase[j] = chars[i]
     THEN LowerCase[CHOOSE j \in 1..26 : UpperCase[j] = chars[i]]
     ELSE chars[i]]

\* String.prototype.trim
trim(chars) ==
  LET kept == {i \in 1..Len(chars) : chars[i] \notin WhiteSpace}
  IN IF kept = {} THEN <<>>
     ELSE SubSeq(chars, CHOOSE i \in kept : \A j \in kept : i <= j,
                        CHOOSE i \in kept : \A j \in kept : i >= j)

\* the string of the characters
RECURSIVE Join(_)
Join(chars) == IF chars = <<>> THEN "" ELSE Head(chars) \o Join(Tail(chars))

\* /^[a-z0-9][a-z0-9_]{2,20}$/.test(cleanName)
subredditRegexTest(cleanName) ==
  LET alnum == {LowerCase[j] : j \in 1..26} \cup Digits
  IN /\ Len(cleanName) \in 3..21
     /\ cleanName[1] \in alnum
     /\ \A i \in 2..Len(cleanName) : cleanName[i] \in alnum \cup {"_"}

\* the result has subredditName when it is valid and error when it is not
validateSubredditName(subredditName) ==
  LET cleanName == toLowerCase(trim(subredditName))
  IN IF subredditName = <<>>
     THEN [isValid |-> FALSE, error |-> "Subreddit name is required"]
     ELSE IF Len(cleanName) < MIN_SUBREDDIT_NAME_LENGTH
     THEN [isValid |-> FALSE, error |-> "Subreddit name is too short"]
     ELSE IF Len(cleanName) > MAX_SUBREDDIT_NAME_LENGTH
     THEN [isValid |-> FALSE, error |-> "Subreddit name is too long"]
     ELSE IF ~subredditRegexTest(cleanName)
     THEN [isValid |-> FALSE,
           error |-> "Subreddit name contains invalid characters or format"]
     ELSE IF Join(cleanName) \in reservedNames
     THEN [isValid |-> FALSE, error |-> "Subreddit name is reserved"]
     ELSE [isValid |-> TRUE, subredditName |-> Join(cleanName)]

isValidSubredditName(subredditName) == validateSubredditName(subredditName).isValid

\* a reserved name as the fallback
fallbackSubredditReserved == <<"a", "l", "l">>

\* const fallbackSubreddit = 'testsubreddit'
fallbackSubreddit ==
  <<"t", "e", "s", "t", "s", "u", "b", "r", "e", "d", "d", "i", "t">>

\* devvit: the Devvit context, whose subredditName may be undefined and
\* whose access may throw
detectSubredditContext(requestSubreddit, devvit) ==
  IF requestSubreddit # <<>> /\ isValidSubredditName(requestSubreddit)
  THEN [subredditName |-> requestSubreddit, isFromDevvitContext |-> FALSE,
        isFromRequest |-> TRUE, source |-> "request_param"]
  ELSE IF /\ ~devvit.throws
          /\ devvit.subredditName # <<>>
          /\ isValidSubredditName(devvit.subredditName)
  THEN [subredditName |-> devvit.subredditName, isFromDevvitContext |-> TRUE,
        isFromRequest |-> FALSE, source |-> "devvit_context"]
  ELSE [subredditName |-> fallbackSubreddit, isFromDevvitContext |-> FALSE,
        isFromRequest |-> FALSE, source |-> "fallback"]

getValidatedSubredditContext(requestSubreddit, devvit) ==
  LET contextInfo == detectSubredditContext(requestSubreddit, devvit)
      validation == validateSubredditName(contextInfo.subredditName)
  IN IF ~validation.isValid THEN validation
     ELSE [isValid |-> TRUE, subredditName |-> validation.subredditName]

\* Date.prototype.toISOString() keeps the date to the millisecond: here the
\* digits of the epoch milliseconds
toISOString(date) == toString(date)

\* new Date(isoString)
newDate(isoString) == parseInt(isoString)

\* the character codes of a digit string
DigitCodes(digits) == [i \in 1..Len(digits) |-> 48 + digits[i]]

\* JSON.stringify of a non-negative integer
IntegerCodes(n) == DigitCodes(toString(n))

\* JSON.stringify of a non-negative number held in hundredths: 150 is 1.5,
\* 7 is 0.07, 300 is 3
NumberCodes(hundredths) ==
  LET whole == IntegerCodes(hundredths \div GrowthScale)
      frac  == hundredths % GrowthScale
  IN IF frac = 0 THEN whole
     ELSE IF frac % 10 = 0 THEN whole \o <<46, 48 + frac \div 10>>
     ELSE whole \o <<46, 48 + frac \div 10, 48 + (frac % 10)>>

\* the character codes of the text around the values of the object that
\* generateStateHash serialises
StateStringParts ==
  << <<123, 34, 116, 114, 101, 101, 76, 101, 118, 101, 108, 34, 58>>,                \* {"treeLevel":
     <<44, 34, 116, 111, 116, 97, 108, 71, 114, 111, 119, 116, 104, 34, 58>>,        \* ,"totalGrowth":
     <<44, 34, 115, 101, 101, 100, 115, 80, 108, 97, 110, 116, 101, 100, 34, 58>>,   \* ,"seedsPlanted":
     <<44, 34, 115, 112, 105, 114, 105, 116, 115, 70, 101, 100, 34, 58>>,            \* ,"spiritsFed":
     <<44, 34, 114, 111, 98, 111, 116, 67, 104, 97, 114, 103, 101, 100, 34, 58>>,    \* ,"robotCharged":
     <<44, 34, 100, 97, 105, 108, 121, 85, 112, 118, 111, 116, 101, 115, 34, 58>>,   \* ,"dailyUpvotes":
     <<44, 34, 117, 112, 100, 97, 116, 101, 100, 65, 116, 34, 58>>,                  \* ,"updatedAt":
     <<125>> >>                                                                      \* }

stateString(gameState) ==
  StateStringParts[1] \o IntegerCodes(gameState.treeLevel)
    \o StateStringParts[2] \o NumberCodes(gameState.totalGrowth)
    \o StateStringParts[3] \o IntegerCodes(gameState.seedsPlanted)
    \o StateStringParts[4] \o IntegerCodes(gameState.spiritsFed)
    \o StateStringParts[5] \o IntegerCodes(gameState.robotCharged)
    \o StateStringParts[6] \o IntegerCodes(gameState.dailyUpvotes)
    \o StateStringParts[7] \o IntegerCodes(gameState.updatedAt)
    \o StateStringParts[8]

\* A 32-bit word is the pair <<high, low>> of its 16-bit halves.
Half == 65536

\* a + b kept to 32 bits
add32(a, b) ==
  LET low == a[2] + b[2]
  IN <<(a[1] + b[1] + low \div Half) % Half, low % Half>>

\* the product of two halves, as a word
mulHalf(x, y) ==
  LET upper == (x \div 256) * y
      low   == (x % 256) * y + (upper % 256) * 256
  IN <<(upper \div 256 + low \div Half) % Half, low % Half>>

\* a * b kept to 32 bits
mul32(a, b) ==
  LET low == mulHalf(a[2], b[2])
  IN <<(low[1] + mulHalf(a[1], b[2])[2] + mulHalf(a[2], b[1])[2]) % Half, low[2]>>

\* The loop
\*   hash = ((hash << 5) - hash) + char; hash = hash & hash
\* over the characters first..final of str takes hash to 31 * hash + char,
\* kept to 32 bits, character by character: to mul * hash + plus over the
\* range, the two halves of a range composed.
RECURSIVE hashLoop(_, _, _)
hashLoop(str, first, final) ==
  IF first = final THEN [mul |-> <<0, 31>>, plus |-> <<0, str[first]>>]
  ELSE LET middle == (first + final) \div 2
           left   == hashLoop(str, first, middle)
           right  == hashLoop(str, middle + 1, final)
       IN [mul  |-> mul32(left.mul, right.mul),
           plus |-> add32(mul32(left.plus, right.mul), right.plus)]

\* the loop from hash = 0
hashOf(str) == hashLoop(str, 1, Len(str)).plus

\* Math.abs of the word read as a signed integer
abs32(hash) ==
  IF hash[1] < Half \div 2 THEN hash
  ELSE IF hash[2] = 0 THEN <<Half - hash[1], 0>>
  ELSE <<Half - 1 - hash[1], Half - hash[2]>>

\* the digits of Number.prototype.toString(36), as character codes
RECURSIVE toString36(_)
toString36(n) ==
  LET rest  == (n[1] % 36) * Half + n[2]
      quot  == <<n[1] \div 36, rest \div 36>>
      digit == rest % 36
      code  == IF digit < 10 THEN 48 + digit ELSE 97 + digit - 10
  IN IF quot = <<0, 0>> THEN <<code>> ELSE Append(toString36(quot), code)

\* `"${Math.abs(hash).toString(36)}"`
generateStateHash(gameState) ==
  <<34>> \o toString36(abs32(hashOf(stateString(gameState)))) \o <<34>>

getRecentActions(w, subredditName, count) ==
  withRetry(LAMBDA v : Await(redisGet(v, "actions", subredditName), LAMBDA o :
    Ok(o.w, SubSeq(o.val[1], 1, Min(count, Len(o.val[1]))))), w)

\* a request header or a cache: absent, or the value
Header(x) == Some(x)

clientHasLatest(gameState, clientLastModified, clientETag) ==
  \/ clientLastModified # None
       /\ newDate(clientLastModified[1]) >= gameState.updatedAt
  \/ clientETag # None /\ clientETag[1] = generateStateHash(gameState)

\* the rest of the route, for the validated subreddit
stateOf(w, subreddit, clientLastModified, clientETag) ==
  Caught(
    Await(getGameState(w, subreddit), LAMBDA o :
      IF o.val[1] = None THEN Ok(o.w, [status |-> 404])
      ELSE LET gameState == o.val[1][1] IN
        IF clientHasLatest(gameState, clientLastModified, clientETag)
        THEN Ok(o.w, [status |-> 304])
        ELSE Await(getActivePlayerCount(o.w, subreddit), LAMBDA p :
               Await(getRecentActions(p.w, subreddit, 5), LAMBDA q :
                 Ok(q.w, [status |-> 200,
                          lastModifiedHeader |-> toISOString(gameState.updatedAt),
                          etag |-> generateStateHash(gameState),
                          gameState |-> gameState,
                          lastModified |-> toISOString(gameState.updatedAt),
                          activePlayerCount |-> p.val[1],
                          recentActions |-> q.val[1],
                          stateHash |-> generateStateHash(gameState)])))),
    [status |-> 500])

\* router.get('/api/state/:subreddit'): the value is the response. The
\* client never sends previousHash, so stateDiff is null.
stateRoute(w, subreddit, devvit, clientLastModified, clientETag) ==
  LET subredditValidation == getValidatedSubredditContext(subreddit, devvit)
  IN IF ~subredditValidation.isValid THEN Ok(w, [status |-> 400])
     ELSE stateOf(w, subredditValidation.subredditName,
                  clientLastModified, clientETag)

\* fetchStateUpdate, the request headers: If-Modified-Since from the cache,
\* never If-None-Match
cacheHeaders(cache) ==
  IF cache = None THEN [ifModifiedSince |-> None, ifNoneMatch |-> None]
  ELSE [ifModifiedSince |-> Header(toISOString(cache[1].lastModified)),
        ifNoneMatch |-> None]

\* fetchStateUpdate, the cache after the response
cacheAfter(cache, response) ==
  IF response.status # 200 THEN cache
  ELSE LET lastModified == newDate(response.lastModified)
       IN IF cache = None \/ lastModified > cache[1].lastModified
          THEN Some([gameState |-> response.gameState,
                     lastModified |-> lastModified,
                     stateHash |-> response.stateHash])
          ELSE cache

\* the subreddit of the request: testsub, othersub, all
SyncSubs ==
  { <<"t", "e", "s", "t", "s", "u", "b">>,
    <<"o", "t", "h", "e", "r", "s", "u", "b">>,
    <<"a", "l", "l">> }

\* the application runs in testsub
SyncContext ==
  [throws |-> FALSE, subredditName |-> <<"t", "e", "s", "t", "s", "u", "b">>]

\* the subreddit the route answers for
ValidatedSubreddit(s, devvit) == getValidatedSubredditContext(s, devvit).subredditName

\* the conditional headers of a request that is not the polling client's
SyncHeaders(s) ==
  LET stored == redis.state[ValidatedSubreddit(s, SyncContext)]
      times  == IF stored = None THEN {0}
                ELSE {stored[1].updatedAt, stored[1].updatedAt + 1}
                       \cup (IF stored[1].updatedAt > 0
                             THEN {stored[1].updatedAt - 1} ELSE {})
      tags   == {generateStateHash(initialState("testsub"))}
                  \cup (IF stored = None THEN {}
                        ELSE {generateStateHash(stored[1])})
  IN ({None} \cup {Header(toISOString(t)) : t \in times})
       \X ({None} \cup {Header(e) : e \in tags})

\* the call of a request: sub is the subreddit the route answered for, arg
\* the name requested, log the conditional headers sent, val the response
SyncCall(op, s, headers, o) ==
  [Returning(Call(op, "", ValidatedSubreddit(s, SyncContext), Join(s),
                  o.val[1].status, Result(o)), o)
     EXCEPT !.log = <<headers.ifModifiedSince, headers.ifNoneMatch>>]

\* the polling client: fetchStateUpdate
FetchStateUpdate(s) ==
  /\ steps < limit
  /\ LET headers == cacheHeaders(client)
     IN \E o \in stateRoute(World, s, SyncContext, headers.ifModifiedSince,
                            headers.ifNoneMatch) :
          /\ Commit(o, SyncCall("fetchStateUpdate", s, headers, o))
          /\ client' = cacheAfter(client, o.val[1])
  /\ UNCHANGED <<scheduler, now, cdSet, done, reqs>>

\* any other conditional request
GetState(s, ifModifiedSince, ifNoneMatch) ==
  /\ steps < limit
  /\ \E o \in stateRoute(World, s, SyncContext, ifModifiedSince, ifNoneMatch) :
       Commit(o, SyncCall("getState", s,
                          [ifModifiedSince |-> ifModifiedSince,
                           ifNoneMatch |-> ifNoneMatch], o))
  /\ UNCHANGED <<scheduler, client, now, cdSet, done, reqs>>

SyncTick ==
  /\ steps < limit
  /\ now' = now + 1
  /\ steps' = steps + 1
  /\ UNCHANGED <<scheduler, client, redis, nextId, faultsLeft, last, cdSet, done,
                 limit, reqs>>

\* the subreddit's state exists at the start
InitSync ==
  /\ now = 0
  /\ redis = [EmptyStore EXCEPT !.state["testsub"] = Some(initialState("testsub"))]
  /\ nextId = 1
  /\ faultsLeft = 0
  /\ last = Call("none", "", "", "", 0, "")
  /\ cdSet = [k \in PlayerKeys |-> None]
  /\ done = [s \in Subs |-> [t \in ActionTypes |-> 0]]
  /\ steps = 0
  /\ limit = MaxSyncSteps
  /\ reqs = NoReqs
  /\ scheduler = NewScheduler
  /\ client = NoCache

NextSync ==
  \/ FetchStateUpdate(SyncContext.subredditName)
  \/ \E s \in SyncSubs : \E h \in SyncHeaders(s) : GetState(s, h[1], h[2])
  \/ RecordAction("alice", "testsub", "plant")
  \/ SyncTick

SpecSync == InitSync /\ [][NextSync]_vars

\* the step is a request for the state of a subreddit that has one
IsStateRequest ==
  /\ steps' = steps + 1
  /\ last'.op \in {"fetchStateUpdate", "getState"}
  /\ last'.sub \in Subs
  /\ redis.state[last'.sub] # None

\* the answers of the route, header by header: 304 exactly when the
\* If-None-Match sent is the hash of the stored state or the If-Modified-Since
\* sent is not earlier than its updatedAt, otherwise 200 with the stored
\* state, its hash as ETag and its updatedAt as Last-Modified
RouteAnswersByHeaders ==
  [][IsStateRequest =>
       LET stored   == redis.state[last'.sub][1]
           response == last'.val[1]
           since    == last'.log[1]
           match    == last'.log[2]
           holds    == \/ match # None /\ match[1] = generateStateHash(stored)
                       \/ since # None /\ ~(newDate(since[1]) < stored.updatedAt)
       IN /\ response.status \in {200, 304}
          /\ response.status = 304 <=> holds
          /\ response.status = 200 =>
               /\ response.gameState = stored
               /\ response.etag = generateStateHash(stored)
               /\ response.lastModifiedHeader = toISOString(stored.updatedAt)]_vars

\* C19: GET /api/state/:subreddit answers 304 when the conditional headers
\* match the stored state and 200 with the full state, ETag and
\* Last-Modified otherwise, and the polling client, which sends the
\* Last-Modified it last received, is never answered 304 when the stored
\* GameState is no longer the one it holds
C19_NoStale304 ==
  [][IsStateRequest /\ last'.op = "fetchStateUpdate" /\ client # None =>
       LET stored   == redis.state[last'.sub][1]
           response == last'.val[1]
       IN stored # client[1].gameState =>
            /\ response.status = 200
            /\ response.gameState = stored
            /\ client'[1].gameState = stored]_vars

----------------------------------------------------------------------------
(* Subreddit isolation: the chronicle schedules, the keys the records are  *)
(* stored under, and every operation on two subreddits.                    *)

MaxIsolationSteps == 2

\* the store operations that may fail in a behaviour
IsolationFaults == {0, 1}

IsolationPlayers ==
  {<<"alice", "testsub">>, <<"alice", "othersub">>, <<"bob", "othersub">>}

CHRONICLE_GENERATION_ERROR == "Chronicle generation error"

\* next day at 9:00 UTC, or next Monday at 9:00 UTC (getUTCDay of 1 January
\* 1970 is 4)
calculateNextRunTime(scheduleType) ==
  IF scheduleType = "daily" THEN (Today + 1) * DAY_MS + 9 * ONE_HOUR_MS
  ELSE LET day == (Today + 4) % 7
           daysUntilMonday == IF (8 - day) % 7 = 0 THEN 7 ELSE (8 - day) % 7
       IN (Today + daysUntilMonday) * DAY_MS + 9 * ONE_HOUR_MS

getChronicleSchedules(w, subredditName) == redisGet(w, "schedules", subredditName)

saveChronicleSchedule(w, schedule) ==
  Await(getChronicleSchedules(w, schedule.subredditName), LAMBDA o :
    LET updatedSchedules ==
          Append(SelectSeq(o.val[1],
                           LAMBDA e : e.scheduleType # schedule.scheduleType),
                 schedule)
    IN redisSet(o.w, "schedules", schedule.subredditName, updatedSchedules))

\* startTime: absent, or the instant given
setupChronicleSchedule(w, subredditName, scheduleType, startTime) ==
  withRetryFrom(CHRONICLE_GENERATION_ERROR, LAMBDA v :
    saveChronicleSchedule(v,
      [subredditName |-> subredditName, scheduleType |-> scheduleType,
       nextRunTime |-> IF startTime # None THEN startTime[1]
                       ELSE calculateNextRunTime(scheduleType),
       isActive |-> TRUE]), w, 1)

\* REDIS_KEYS, and the two keys written inline (the player index of
\* PlayerResourceService, the schedules of ChronicleGenerationService). The
\* date of a daily record is its UTC day.
SUBREDDIT_STATE(subreddit) == "cinnarito:subreddit:" \o subreddit \o ":state"

PLAYER_RESOURCES(username, subreddit) ==
  "cinnarito:player:" \o username \o ":" \o subreddit \o ":resources"

ACTION_HISTORY(subreddit) == "cinnarito:subreddit:" \o subreddit \o ":actions"

DAILY_GROWTH(subreddit, date) ==
  "cinnarito:subreddit:" \o subreddit \o ":daily:" \o ToString(date)

ACTIVE_PLAYERS(subreddit) == "cinnarito:subreddit:" \o subreddit \o ":active"

\* the key without the subreddit
ACTION_COOLDOWN_OF_USER(username, subreddit) == "cinnarito:cooldown:" \o username

ACTION_COOLDOWN(username, subreddit) ==
  "cinnarito:cooldown:" \o username \o ":" \o subreddit

PLAYER_INDEX(subreddit) == "cinnarito:subreddit:" \o subreddit \o ":players"

CHRONICLE_SCHEDULES(subreddit) == "cinnarito:chronicle:schedules:" \o subreddit

\* the places of the store that hold one record each, and the key of each
Places ==
  {<<f, s>> : f \in {"state", "actions", "active", "players", "schedules"}, s \in Subs}
    \cup {<<f, k>> : f \in {"resources", "cooldown"}, k \in PlayerKeys}

KeyOf(place) ==
  CASE place[1] = "state"     -> SUBREDDIT_STATE(place[2])
    [] place[1] = "actions"   -> ACTION_HISTORY(place[2])
    [] place[1] = "active"    -> ACTIVE_PLAYERS(place[2])
    [] place[1] = "players"   -> PLAYER_INDEX(place[2])
    [] place[1] = "schedules" -> CHRONICLE_SCHEDULES(place[2])
    [] place[1] = "resources" -> PLAYER_RESOURCES(place[2][1], place[2][2])
    [] place[1] = "cooldown"  -> ACTION_COOLDOWN(place[2][1], place[2][2])

\* what the store holds under a key
StoredUnder(kv, key) ==
  {<<place[1], kv[place[1]][place[2]]>> : place \in {q \in Places : KeyOf(q) = key}}
    \cup UNION {{<<"daily", d>> : d \in {e \in kv.daily[s] :
                                         DAILY_GROWTH(s, e.date) = key}} : s \in Subs}

\* the days a daily record is stored for
DatesOf(kv) == UNION {{d.date : d \in kv.daily[s]} : s \in Subs}

\* the keys of the records of a subreddit
KeysUnder(subreddit, dates) ==
  {SUBREDDIT_STATE(subreddit), ACTION_HISTORY(subreddit), ACTIVE_PLAYERS(subreddit),
   PLAYER_INDEX(subreddit), CHRONICLE_SCHEDULES(subreddit)}
    \cup {DAILY_GROWTH(subreddit, date) : date \in dates}
    \cup {PLAYER_RESOURCES(u, subreddit) : u \in Users}
    \cup {ACTION_COOLDOWN(u, subreddit) : u \in Users}

IsolationTicks == {DAY_MS}

ScheduleInputs == {<<"daily", None>>, <<"weekly", Some(5000)>>}

TrackActivePlayer(u, s) ==
  /\ steps < limit
  /\ \E o \in trackActivePlayer(World, u, s) :
       Commit(o, Call("trackActivePlayer", u, s, "", 0, Result(o)))
  /\ UNCHANGED <<scheduler, client, now, cdSet, done, reqs>>

SetupChronicleSchedule(s, scheduleType, startTime) ==
  /\ steps < limit
  /\ \E o \in setupChronicleSchedule(World, s, scheduleType, startTime) :
       Commit(o, Call("setupChronicleSchedule", "", s, scheduleType, 0, Result(o)))
  /\ UNCHANGED <<scheduler, client, now, cdSet, done, reqs>>

\* nothing stored, or the sessions of RouteStore opened
InitIsolation ==
  /\ now = 0
  /\ redis \in {EmptyStore, RouteStore}
  /\ nextId = 1
  /\ faultsLeft \in IsolationFaults
  /\ last = Call("none", "", "", "", 0, "")
  /\ cdSet = [k \in PlayerKeys |-> None]
  /\ done = [s \in Subs |-> [t \in ActionTypes |-> 0]]
  /\ steps = 0
  /\ limit = MaxIsolationSteps
  /\ reqs = NoReqs
  /\ scheduler = NewScheduler
  /\ client = NoCache

NextIsolation ==
  \/ \E s \in Subs : InitializeGameState(s)
  \/ \E k \in IsolationPlayers : InitializePlayerSession(k[1], k[2])
  \/ \E k \in IsolationPlayers : ProcessPlayerAction(k[1], k[2], "plant")
  \/ \E k \in IsolationPlayers : CheckActionCooldown(k[1], k[2])
  \/ \E k \in IsolationPlayers : SetActionCooldown(k[1], k[2], ACTION_COOLDOWN_MS)
  \/ \E k \in IsolationPlayers : TrackActivePlayer(k[1], k[2])
  \/ \E s \in Subs : ProcessDailyGrowth(s)
  \/ \E s \in Subs, i \in ScheduleInputs : SetupChronicleSchedule(s, i[1], i[2])
  \/ \E d \in IsolationTicks : CooldownTick(d)

SpecIsolation == InitIsolation /\ [][NextIsolation]_vars

\* C20: an operation for subreddit A (initialize, open a session, player
\* action, cooldown check or set, active-player tracking, daily growth
\* processing, chronicle schedule setup), whether it succeeds or fails, leaves
\* what is stored under every key of every other subreddit B as it was:
\* B's GameState, action history, daily stats, active players, player index,
\* schedules, and the resources and the cooldowns of the players under B
C20_SubredditIsolation ==
  [][steps' = steps + 1 /\ last'.sub \in Subs =>
       \A B \in Subs \ {last'.sub} :
         \A key \in KeysUnder(B, DatesOf(redis) \cup DatesOf(redis')) :
           StoredUnder(redis', key) = StoredUnder(redis, key)]_vars

\* a player action succeeded for one subreddit while another subreddit held
\* a GameState, the player's resources there and a cooldown
C20_Witness ==
  /\ last.op = "processPlayerAction"
  /\ last.res = "Success"
  /\ \E B \in Subs \ {last.sub} :
       /\ redis.state[B] # None
       /\ redis.resources[<<last.user, B>>] # None
       /\ redis.cooldown[<<last.user, B>>] # None
  /\ redis.cooldown[<<last.user, last.sub>>] # None

----------------------------------------------------------------------------
(* The three level functions, applied to pairs of growth values.           *)

\* growth values run to MaxLevelGrowth quarter-hundreds, 25 apart, each with
\* the hundredth below and above it
MaxLevelGrowth == 44

LevelInputs ==
  {g \in {q * 25 * GrowthScale + d : q \in 0..MaxLevelGrowth, d \in {-1, 0, 1}} :
     g >= 0}

\* the thresholds tested from the lowest up, the first match returned
sharedCalculateTreeLevelAscending(totalGrowth) ==
  IF totalGrowth >= TREE_LEVELS[2].growthRequired THEN TREE_LEVELS[2].level
  ELSE IF totalGrowth >= TREE_LEVELS[3].growthRequired THEN TREE_LEVELS[3].level
  ELSE IF totalGrowth >= TREE_LEVELS[4].growthRequired THEN TREE_LEVELS[4].level
  ELSE IF totalGrowth >= TREE_LEVELS[5].growthRequired THEN TREE_LEVELS[5].level
  ELSE IF totalGrowth >= TREE_LEVELS[6].growthRequired THEN TREE_LEVELS[6].level
  ELSE TREE_LEVELS[1].level

\* shared/utils/growth.ts calculateTreeLevel: SPIRIT_TREE, ANCIENT_TREE,
\* MATURE_TREE, YOUNG_TREE, SAPLING tested in this order, else SEEDLING
sharedCalculateTreeLevel(totalGrowth) ==
  IF totalGrowth >= TREE_LEVELS[6].growthRequired THEN TREE_LEVELS[6].level
  ELSE IF totalGrowth >= TREE_LEVELS[5].growthRequired THEN TREE_LEVELS[5].level
  ELSE IF totalGrowth >= TREE_LEVELS[4].growthRequired THEN TREE_LEVELS[4].level
  ELSE IF totalGrowth >= TREE_LEVELS[3].growthRequired THEN TREE_LEVELS[3].level
  ELSE IF totalGrowth >= TREE_LEVELS[2].growthRequired THEN TREE_LEVELS[2].level
  ELSE TREE_LEVELS[1].level

\* the three implementations applied to one growth value
LevelsAt(totalGrowth) ==
  [totalGrowth |-> totalGrowth,
   redis  |-> calculateTreeLevel(totalGrowth),
   growth |-> growthCalculateTreeLevel(totalGrowth),
   shared |-> sharedCalculateTreeLevel(totalGrowth)]

\* the functions applied to a growth value and to one not below it
CalculateTreeLevel(lower, upper) ==
  /\ steps < limit
  /\ lower <= upper
  /\ last' = [Call("calculateTreeLevel", "", "", "", lower, "ok")
                EXCEPT !.val = Some([lower |-> LevelsAt(lower),
                                     upper |-> LevelsAt(upper)])]
  /\ steps' = steps + 1
  /\ UNCHANGED <<scheduler, client, redis, nextId, now, faultsLeft, cdSet, done,
                 limit, reqs>>

InitLevels == InitWith(0, 1)

NextLevels == \E lower \in LevelInputs, upper \in LevelInputs :
                CalculateTreeLevel(lower, upper)

SpecLevels == InitLevels /\ [][NextLevels]_vars

----------------------------------------------------------------------------
(* The two growth functions in the arithmetic of JavaScript numbers.       *)

(* Natural numbers of any size: limbs base 2^15, least significant first,  *)
(* no zero limb at the top; zero is the empty sequence.                    *)
Limb == 32768

RECURSIVE bnTrim(_)
bnTrim(a) ==
  IF a = <<>> \/ a[Len(a)] # 0 THEN a ELSE bnTrim(SubSeq(a, 1, Len(a) - 1))

RECURSIVE bnOf(_)
bnOf(n) == IF n = 0 THEN <<>> ELSE <<n % Limb>> \o bnOf(n \div Limb)

RECURSIVE bnToInt(_)
bnToInt(a) == IF a = <<>> THEN 0 ELSE a[1] + Limb * bnToInt(Tail(a))

bnLimb(a, i) == IF i \in 1..Len(a) THEN a[i] ELSE 0

RECURSIVE bnAddFrom(_, _, _, _)
bnAddFrom(a, b, i, carry) ==
  IF i > Len(a) /\ i > Len(b) THEN (IF carry = 0 THEN <<>> ELSE <<carry>>)
  ELSE LET t == bnLimb(a, i) + bnLimb(b, i) + carry
       IN <<t % Limb>> \o bnAddFrom(a, b, i + 1, t \div Limb)

bnAdd(a, b) == bnAddFrom(a, b, 1, 0)

\* a - b for a >= b
RECURSIVE bnSubFrom(_, _, _, _)
bnSubFrom(a, b, i, borrow) ==
  IF i > Len(a) THEN <<>>
  ELSE LET t == a[i] - bnLimb(b, i) - borrow
       IN IF t < 0 THEN <<t + Limb>> \o bnSubFrom(a, b, i + 1, 1)
          ELSE <<t>> \o bnSubFrom(a, b, i + 1, 0)

bnSub(a, b) == bnTrim(bnSubFrom(a, b, 1, 0))

RECURSIVE bnMulSmallFrom(_, _, _, _)
bnMulSmallFrom(a, k, i, carry) ==
  IF i > Len(a) THEN (IF carry = 0 THEN <<>> ELSE <<carry>>)
  ELSE LET t == a[i] * k + carry
       IN <<t % Limb>> \o bnMulSmallFrom(a, k, i + 1, t \div Limb)

\* a * k for k < 2^15
bnMulSmall(a, k) == IF k = 0 THEN <<>> ELSE bnMulSmallFrom(a, k, 1, 0)

bnShiftLimbs(a, n) == IF a = <<>> THEN <<>> ELSE [i \in 1..n |-> 0] \o a

RECURSIVE bnMulFrom(_, _, _)
bnMulFrom(a, b, i) ==
  IF i > Len(b) THEN <<>>
  ELSE bnAdd(bnShiftLimbs(bnMulSmall(a, b[i]), i - 1), bnMulFrom(a, b, i + 1))

bnMul(a, b) == bnMulFrom(a, b, 1)

\* a * 2^bits
bnShl(a, bits) == bnShiftLimbs(bnMulSmall(a, 2 ^ (bits % 15)), bits \div 15)

\* quotient and remainder of the limbs 1..i of a, with rem carried in from
\* above, by d < 2^15
RECURSIVE bnDivSmallFrom(_, _, _, _)
bnDivSmallFrom(a, d, i, rem) ==
  IF i = 0 THEN [q |-> <<>>, r |-> rem]
  ELSE LET cur   == rem * Limb + a[i]
           lower == bnDivSmallFrom(a, d, i - 1, cur % d)
       IN [q |-> Append(lower.q, cur \div d), r |-> lower.r]

bnDivSmall(a, d) ==
  LET res == bnDivSmallFrom(a, d, Len(a), 0) IN [q |-> bnTrim(res.q), r |-> res.r]

\* floor(a / 2^bits)
bnShr(a, bits) ==
  IF bits \div 15 >= Len(a) THEN <<>>
  ELSE bnDivSmall(SubSeq(a, bits \div 15 + 1, Len(a)), 2 ^ (bits % 15)).q

RECURSIVE bitsOf(_)
bitsOf(n) == IF n = 0 THEN 0 ELSE 1 + bitsOf(n \div 2)

bnBitLen(a) == IF a = <<>> THEN 0 ELSE 15 * (Len(a) - 1) + bitsOf(a[Len(a)])

RECURSIVE bnLessFrom(_, _, _)
bnLessFrom(a, b, i) ==
  IF i = 0 THEN FALSE
  ELSE IF a[i] # b[i] THEN a[i] < b[i]
  ELSE bnLessFrom(a, b, i - 1)

bnLess(a, b) ==
  IF Len(a) # Len(b) THEN Len(a) < Len(b) ELSE bnLessFrom(a, b, Len(a))

bnOdd(a) == a # <<>> /\ a[1] % 2 = 1

(* IEEE 754 binary64 numbers that are not negative: m * 2^e with           *)
(* 2^52 <= m < 2^53, or zero.                                              *)
Precision == 53

Zero == [m |-> <<>>, e |-> 0]

\* m * 2^e rounded to the nearest double, a tie to the even mantissa
fRound(m, e) ==
  LET len == bnBitLen(m)
  IN IF len = 0 THEN Zero
     ELSE IF len <= Precision THEN [m |-> bnShl(m, Precision - len),
                                    e |-> e - (Precision - len)]
     ELSE LET k    == len - Precision
              q    == bnShr(m, k)
              r    == bnSub(m, bnShl(q, k))
              half == bnShl(<<1>>, k - 1)
              up   == bnLess(half, r) \/ (r = half /\ bnOdd(q))
              q1   == IF up THEN bnAdd(q, <<1>>) ELSE q
          IN IF bnBitLen(q1) > Precision THEN [m |-> bnShr(q1, 1), e |-> e + k + 1]
             ELSE [m |-> q1, e |-> e + k]

fMul(a, b) == fRound(bnMul(a.m, b.m), a.e + b.e)

fAdd(a, b) ==
  IF a = Zero THEN b
  ELSE IF b = Zero THEN a
  ELSE LET e == IF a.e < b.e THEN a.e ELSE b.e
       IN fRound(bnAdd(bnShl(a.m, a.e - e), bnShl(b.m, b.e - e)), e)

\* the double of a natural number below 2^31
fOfInt(n) == fRound(bnOf(n), 0)

\* n / d for a natural n and 0 < d < 2^15: the quotient to 75 bits and more,
\* a last bit set when the division left a remainder
fDivInt(n, d) ==
  LET res == bnDivSmall(bnShl(bnOf(n), 75), d)
  IN fRound(bnAdd(bnShl(res.q, 1), IF res.r = 0 THEN <<>> ELSE <<1>>), 0 - 76)

\* Math.round of a double below 2^31: the nearest integer, a half upwards
mathRound(a) ==
  IF a = Zero THEN 0
  ELSE IF a.e >= 0 THEN bnToInt(bnShl(a.m, a.e))
  ELSE LET q == bnShr(a.m, 0 - a.e)
           r == bnSub(a.m, bnShl(q, 0 - a.e))
           half == bnShl(<<1>>, 0 - a.e - 1)
       IN bnToInt(q) + (IF bnLess(r, half) THEN 0 ELSE 1)

MaxGrowthCount == 2
MaxGrowthUpvotes == 12

\* GAME_CONFIG.GROWTH_MULTIPLIERS as the doubles the literals 1.5, 2, 3 and
\* 0.1 denote
Multiplier(name) == fDivInt(GROWTH_MULTIPLIERS[name], 1000)

\* seedsPlanted * SEEDS_PLANTED + spiritsFed * SPIRITS_FED
\*   + robotCharged * ROBOT_CHARGED + redditUpvotes * REDDIT_UPVOTES,
\* added from the left
weightedSum(seedsPlanted, spiritsFed, robotCharged, redditUpvotes) ==
  fAdd(fAdd(fAdd(fMul(fOfInt(seedsPlanted), Multiplier("SEEDS_PLANTED")),
                 fMul(fOfInt(spiritsFed), Multiplier("SPIRITS_FED"))),
            fMul(fOfInt(robotCharged), Multiplier("ROBOT_CHARGED"))),
       fMul(fOfInt(redditUpvotes), Multiplier("REDDIT_UPVOTES")))

\* GrowthCalculationService.calculateGrowth: Math.round(growth * 100) / 100
calculateGrowthDouble(seedsPlanted, spiritsFed, robotCharged, redditUpvotes) ==
  fDivInt(mathRound(fMul(weightedSum(seedsPlanted, spiritsFed, robotCharged,
                                     redditUpvotes), fOfInt(100))), 100)

\* shared/utils/growth.ts calculateGrowth: the sum as it is
sharedCalculateGrowth(stats) ==
  weightedSum(stats.seedsPlanted, stats.spiritsFed, stats.robotCharged,
              stats.redditUpvotes)

\* both functions applied to the same counts; rounded is the number the
\* decimal literal of the sum rounded to two places denotes
CalculateGrowth(s, f, c, u) ==
  /\ steps < limit
  /\ last' = [Call("calculateGrowth", "", "", "", u, "ok")
                EXCEPT !.val =
                  Some([seedsPlanted |-> s, spiritsFed |-> f, robotCharged |-> c,
                        redditUpvotes |-> u,
                        service |-> calculateGrowthDouble(s, f, c, u),
                        shared  |-> sharedCalculateGrowth(
                                      [seedsPlanted |-> s, spiritsFed |-> f,
                                       robotCharged |-> c, redditUpvotes |-> u]),
                        rounded |-> fDivInt(Round2(s * GROWTH_MULTIPLIERS.SEEDS_PLANTED
                                                   + f * GROWTH_MULTIPLIERS.SPIRITS_FED
                                                   + c * GROWTH_MULTIPLIERS.ROBOT_CHARGED
                                                   + u * GROWTH_MULTIPLIERS.REDDIT_UPVOTES),
                                            100)])]
  /\ steps' = steps + 1
  /\ UNCHANGED <<scheduler, client, redis, nextId, now, faultsLeft, cdSet, done,
                 limit, reqs>>

InitGrowth == InitWith(0, 1)

NextGrowth ==
  \E s \in 0..MaxGrowthCount, f \in 0..MaxGrowthCount, c \in 0..MaxGrowthCount,
     u \in 0..MaxGrowthUpvotes : CalculateGrowth(s, f, c, u)

SpecGrowth == InitGrowth /\ [][NextGrowth]_vars

\* GrowthCalculationService.calculateGrowth returns the sum rounded to two
\* decimal places, and the integer arithmetic in hundredths used for it in
\* the other specifications gives the same number
ServiceGrowthRounded ==
  last.op = "calculateGrowth" =>
    /\ last.val[1].service = last.val[1].rounded
    /\ last.val[1].service =
         fDivInt(calculateGrowth(last.val[1].seedsPlanted, last.val[1].spiritsFed,
                                 last.val[1].robotCharged, last.val[1].redditUpvotes),
                 100)

\* C22: for non-negative integers s, f, c and upvotes u, the growth
\* function (GrowthCalculationService.calculateGrowth and the shared
\* calculateGrowth) returns 1.5*s + 2*f + 3*c + 0.1*u rounded to two decimal
\* places
C22_GrowthRounded ==
  last.op = "calculateGrowth" =>
    /\ last.val[1].service = last.val[1].rounded
    /\ last.val[1].shared = last.val[1].rounded

----------------------------------------------------------------------------
(* SpecRace, two actions by different players on one subreddit.            *)

\* requests r1 and r2 are actions by different players that answered
\* Success, and no other request was started
PairSucceeded(r1, r2) ==
  /\ \A r \in {r1, r2} :
       reqs[r].op = "action" /\ reqs[r].pc = "done" /\ reqs[r].res = "Success"
  /\ reqs[r1].user # reqs[r2].user
  /\ \A r \in DOMAIN reqs \ {r1, r2} : reqs[r].pc = "idle"

CounterSum(gameState) ==
  gameState.seedsPlanted + gameState.spiritsFed + gameState.robotCharged

\* the totalGrowth a request read when it computed its updates
BaseGrowth(q) == q.updates.totalGrowth - q.n

\* C23: the read-merge-write of GameState is not atomic. When two actions by
\* different players on one subreddit both succeed, the counters have grown
\* by 1 or by 2 and totalGrowth by one contribution or by both; nothing is
\* lost when the second request read the state the first had written, and
\* when both read the same base state the later write discards the other's
\* growth and the other's counter increment
C23_LostUpdate ==
  \A r1, r2 \in DOMAIN reqs :
    r1 < r2 /\ PairSucceeded(r1, r2) =>
      LET before == RaceStore.state["testsub"][1]
          after  == redis.state["testsub"][1]
          a      == reqs[r1]
          b      == reqs[r2]
          grown  == after.totalGrowth - before.totalGrowth
          counted == CounterSum(after) - CounterSum(before)
      IN /\ counted \in {1, 2}
         /\ grown \in {a.n, b.n, a.n + b.n}
         /\ BaseGrowth(a) # BaseGrowth(b) => counted = 2 /\ grown = a.n + b.n
         /\ BaseGrowth(a) = BaseGrowth(b) => counted = 1 /\ grown \in {a.n, b.n}

\* alice's plant and bob's plant both answered Success, both history entries
\* are stored, and seedsPlanted is 1 and totalGrowth 1.5
C23_Witness ==
  /\ PairSucceeded(1, 2)
  /\ reqs[1].arg = "plant" /\ reqs[2].arg = "plant"
  /\ Len(redis.actions["testsub"]) = 2
  /\ CounterSum(redis.state["testsub"][1]) =
       CounterSum(RaceStore.state["testsub"][1]) + 1
  /\ redis.state["testsub"][1].totalGrowth =
       RaceStore.state["testsub"][1].totalGrowth + routeGrowthContribution("plant")

\* C24: the cooldown gate is advisory. A request passes the guards exactly
\* when the player can afford the action and no unexpired cooldown of the
\* player is stored, and passing debits the cost; the cooldown is stored only
\* by the last step of a request, after its history entry and its state
\* update; and every request that passed writes its history entry. So a
\* second request of the player that reaches the guards before the first
\* request's last step is carried out as well
C24_AdvisoryCooldown ==
  [][ /\ \A r \in DOMAIN reqs :
           LET q == reqs[r]
               k == <<q.user, q.sub>>
               cost == getActionCost(q.arg)
           IN /\ (q.pc = "guards" /\ reqs'[r].pc # "guards") =>
                   /\ reqs'[r].pc = "history_get" <=>
                        /\ redis.resources[k][1].cinnamon >= cost
                        /\ ~OnCooldownNow(k)
                   /\ reqs'[r].pc = "history_get" =>
                        /\ redis'.resources[k][1].cinnamon =
                             redis.resources[k][1].cinnamon - cost
                        /\ redis'.cooldown = redis.cooldown
              /\ (q.pc = "history_set" /\ reqs'[r].pc # "history_set") =>
                   /\ redis'.actions[q.sub] # <<>>
                   /\ Head(redis'.actions[q.sub]) = q.action
      /\ \A k \in PlayerKeys :
           redis'.cooldown[k] # redis.cooldown[k] =>
             \E r \in DOMAIN reqs :
               /\ reqs[r].pc = "cooldown_set" /\ reqs'[r].pc = "done"
               /\ k = <<reqs[r].user, reqs[r].sub>> ]_vars

\* two plants of alice, started at the same instant, both answered Success:
\* both entries are in the history, 10 cinnamon are debited and the cooldown
\* is stored
C24_Witness ==
  /\ now = 0
  /\ \A r \in {1, 2} :
       /\ reqs[r].op = "action" /\ reqs[r].user = "alice" /\ reqs[r].arg = "plant"
       /\ reqs[r].pc = "done" /\ reqs[r].res = "Success"
  /\ Len(redis.actions["testsub"]) = 2
  /\ \A i \in 1..2 : redis.actions["testsub"][i].username = "alice"
  /\ redis.resources[<<"alice", "testsub">>][1].cinnamon =
       RaceStore.resources[<<"alice", "testsub">>][1].cinnamon
         - 2 * getActionCost("plant")
  /\ redis.resources[<<"alice", "testsub">>][1].totalContributions =
       RaceStore.resources[<<"alice", "testsub">>][1].totalContributions
         + 2 * getActionCost("plant")
  /\ OnCooldownNow(<<"alice", "testsub">>)

----------------------------------------------------------------------------
(* SpecDebit: one request to an action route while store operations fail.  *)

MaxDebitFaults == 5

DebitRoute(u, s, t) ==
  /\ steps < limit
  /\ \E o \in actionRoute(TracedWorld, u, s, t) :
       Commit(o, Traced(Call("actionRoute", u, s, t, getActionCost(t), o.val[1]), o))
  /\ UNCHANGED <<scheduler, client, now, cdSet, done, reqs>>

InitDebit ==
  /\ now = 0
  /\ redis = RouteStore
  /\ nextId = 1
  /\ faultsLeft \in 0..MaxDebitFaults
  /\ last = Call("none", "", "", "", 0, "")
  /\ cdSet = [k \in PlayerKeys |-> None]
  /\ done = [s \in Subs |-> [t \in ActionTypes |-> 0]]
  /\ steps = 0
  /\ limit = 1
  /\ reqs = NoReqs
  /\ scheduler = NewScheduler
  /\ client = NoCache

NextDebit == \E k \in {<<"alice", "testsub">>} : DebitRoute(k[1], k[2], "plant")

SpecDebit == InitDebit /\ [][NextDebit]_vars

\* the request wrote the player's resources
Debited(log) ==
  \E i \in 1..Len(log) : log[i].ev = "set" /\ log[i].field = "resources" /\ log[i].ok

\* the request entered recordAction: it read the history key
RecordEntered(log) ==
  \E i \in 1..Len(log) : log[i].ev = "get" /\ log[i].field = "actions"

\* the request came to setActionCooldown, which follows recordAction
RecordReturned(log) ==
  \E i \in 1..Len(log) : log[i].ev = "set" /\ log[i].field = "cooldown"

\* the debit succeeded and the recordAction that followed it threw
DebitedNotRecorded ==
  /\ steps' = steps + 1
  /\ last'.op = "actionRoute"
  /\ Debited(last'.log) /\ RecordEntered(last'.log) /\ ~RecordReturned(last'.log)

\* the part that holds: the request answers with the error response, the
\* debit stays, no growth is persisted and no cooldown is set
DebitKept ==
  [][ DebitedNotRecorded =>
        LET k == <<last'.user, last'.sub>>
        IN /\ last'.res = "Error"
           /\ redis'.resources[k][1].cinnamon =
                redis.resources[k][1].cinnamon - last'.n
           /\ redis'.resources[k][1].totalContributions =
                redis.resources[k][1].totalContributions + last'.n
           /\ redis'.state = redis.state
           /\ redis'.cooldown = redis.cooldown ]_vars

\* C25: when the debit of an action succeeds and the recordAction that
\* follows it fails, the request ends with the error response and nothing is
\* rolled back: the cinnamon stays debited and totalContributions stays
\* increased, and no history entry, no growth and no cooldown are persisted.
C25_DebitedNotRecorded ==
  [][ DebitedNotRecorded =>
        LET k == <<last'.user, last'.sub>>
        IN /\ last'.res = "Error"
           /\ redis'.resources[k][1].cinnamon =
                redis.resources[k][1].cinnamon - last'.n
           /\ redis'.resources[k][1].totalContributions =
                redis.resources[k][1].totalContributions + last'.n
           /\ redis'.actions = redis.actions
           /\ redis'.state = redis.state
           /\ redis'.cooldown = redis.cooldown ]_vars

----------------------------------------------------------------------------
(* The history and the calls of recordAction.                              *)

\* C26: history entries correspond one-to-one to successful recordAction
\* calls: a call that returns has added exactly one entry to the history of
\* its subreddit and a call that fails has added none.
C26_HistoryOneToOne ==
  [][ (last'.op = "recordAction" /\ steps' = steps + 1) =>
        /\ Len(redis'.actions[last'.sub]) =
             Len(redis.actions[last'.sub]) + (IF last'.res = "ok" THEN 1 ELSE 0)
        /\ \A s \in Subs \ {last'.sub} : redis'.actions[s] = redis.actions[s] ]_vars

----------------------------------------------------------------------------
(* SpecRoute, the cooldown a successful request stores.                    *)

\* the cooldown of the specification: 300 seconds for post, 60 seconds for
\* plant, feed and charge
CooldownOf(actionType) ==
  IF actionType = "post" THEN POST_COOLDOWN_MS ELSE ACTION_COOLDOWN_MS

\* the request stored a cooldown for its player that expires durationMs
\* after the request
StoresCooldown(durationMs) ==
  redis'.cooldown[<<last'.user, last'.sub>>] = Some(toString(now + durationMs))

\* the part that holds: the HTTP routes store 60 seconds for plant, feed and
\* charge and 300 seconds for post, and processPlayerAction stores 60 seconds
\* for every action type
CooldownByPath ==
  [][ (IsRequest /\ last'.res = "Success") =>
        StoresCooldown(IF last'.op = "processPlayerAction" THEN ACTION_COOLDOWN_MS
                       ELSE CooldownOf(last'.arg)) ]_vars

\* C27: after every successful action the coordinator stores a cooldown that
\* expires 60 seconds after the action for plant, feed and charge and 300
\* seconds after it for post, on the HTTP routes and in processPlayerAction.
C27_CooldownByType ==
  [][ (IsRequest /\ last'.res = "Success") => StoresCooldown(CooldownOf(last'.arg)) ]_vars

----------------------------------------------------------------------------
(* SpecChronicle: the chronicle schedules of a subreddit, set up and        *)
(* processed as time passes, the platform accepting or refusing each post   *)
(* and one store operation failing at most.                                 *)

MaxChronicleSteps == 4

ChronicleFaults == {0, 1}

chronicleWithRetry(operation(_), w) ==
  withRetryFrom(CHRONICLE_GENERATION_ERROR, operation, w, 1)

\* the daily records of the last `days` days, read one by one
RECURSIVE growthHistoryFrom(_, _, _, _)
growthHistoryFrom(w, subredditName, i, days) ==
  IF i = days THEN Ok(w, TRUE)
  ELSE Await(getDailyGrowthStats(w, subredditName, Today - i), LAMBDA o :
         growthHistoryFrom(o.w, subredditName, i + 1, days))

getGrowthHistory(w, subredditName, days) ==
  growthWithRetry(LAMBDA v : growthHistoryFrom(v, subredditName, 0, days), w)

\* generateDailyChronicle and generateWeeklyChronicle: the value is the type
\* of the chronicle generated
generateChronicle(w, subredditName, scheduleType) ==
  chronicleWithRetry(LAMBDA v :
    Await(getGameState(v, subredditName), LAMBDA g :
      IF g.val[1] = None THEN Throw(g.w, "NotFound")
      ELSE IF scheduleType = "daily"
           THEN Await(getDailyStats(g.w, subredditName), LAMBDA d :
                  Ok(d.w, scheduleType))
           ELSE Await(getGrowthHistory(g.w, subredditName, 7), LAMBDA h :
                  Ok(h.w, scheduleType))), w)

\* the update that leaves nextRunTime as it was
updateScheduleLastRunOnly(w, schedule) ==
  saveChronicleSchedule(w, [lastRunTime |-> now] @@ schedule)

updateScheduleNextRun(w, schedule) ==
  saveChronicleSchedule(w,
    [lastRunTime |-> now] @@
      [schedule EXCEPT !.nextRunTime = calculateNextRunTime(schedule.scheduleType)])

\* the loop over the schedules read; answers[scheduleType] is the platform's
\* answer to the post (postResult.success); the value is the sequence of
\* schedule types a chronicle was posted for
RECURSIVE scheduleLoop(_, _, _, _, _)
scheduleLoop(w, schedules, i, answers, posted) ==
  IF i > Len(schedules) THEN Ok(w, posted)
  ELSE LET schedule == schedules[i]
       IN IF ~schedule.isActive \/ schedule.nextRunTime > now
          THEN scheduleLoop(w, schedules, i + 1, answers, posted)
          ELSE UNION {
            IF ~g.ok \/ ~answers[schedule.scheduleType]
            THEN scheduleLoop(g.w, schedules, i + 1, answers, posted)
            ELSE UNION { scheduleLoop(u.w, schedules, i + 1, answers,
                                      Append(posted, schedule.scheduleType)) :
                         u \in updateScheduleNextRun(g.w, schedule) } :
            g \in generateChronicle(w, schedule.subredditName, schedule.scheduleType) }

processScheduledChronicles(w, subredditName, answers) ==
  chronicleWithRetry(LAMBDA v :
    Await(getChronicleSchedules(v, subredditName), LAMBDA o :
      scheduleLoop(o.w, o.val[1], 1, answers, <<>>)), w)

PostAnswers == [{"daily", "weekly"} -> BOOLEAN]

\* last.log holds the platform's answers, last.val the types posted
ProcessScheduledChronicles(s, answers) ==
  /\ steps < limit
  /\ \E o \in processScheduledChronicles(World, s, answers) :
       Commit(o, [Call("processScheduledChronicles", "", s, "", 0, Result(o))
                    EXCEPT !.val = o.val, !.log = answers])
  /\ UNCHANGED <<scheduler, client, now, cdSet, done, reqs>>

ChronicleTick(d) ==
  /\ steps < limit
  /\ now' = now + d
  /\ last' = Call("tick", "", "", "", 0, "")
  /\ steps' = steps + 1
  /\ UNCHANGED <<scheduler, client, redis, nextId, faultsLeft, cdSet, done, limit, reqs>>

\* testsub has a game state, othersub has none; no schedule is set up
ChronicleStore ==
  LET fresh == [kv |-> EmptyStore, ids |-> 1, faults |-> 0]
      made == CHOOSE o \in initializeGameState(fresh, "testsub") : o.ok
  IN made.w.kv

InitChronicle ==
  /\ now = 0
  /\ redis = ChronicleStore
  /\ nextId = 1
  /\ faultsLeft \in ChronicleFaults
  /\ last = Call("none", "", "", "", 0, "")
  /\ cdSet = [k \in PlayerKeys |-> None]
  /\ done = [s \in Subs |-> [t \in ActionTypes |-> 0]]
  /\ steps = 0
  /\ limit = MaxChronicleSteps
  /\ reqs = NoReqs
  /\ scheduler = NewScheduler
  /\ client = NoCache

NextChronicle ==
  \/ \E s \in Subs, t \in {"daily", "weekly"}, startTime \in {None, Some(0)} :
       SetupChronicleSchedule(s, t, startTime)
  \/ \E s \in Subs, answers \in PostAnswers : ProcessScheduledChronicles(s, answers)
  \/ \E d \in {DAY_MS} : ChronicleTick(d)

SpecChronicle == InitChronicle /\ [][NextChronicle]_vars

\* the schedule of the type among the schedules, as a set of at most one
ScheduleOf(schedules, scheduleType) ==
  {schedules[i] : i \in {j \in 1..Len(schedules) :
                           schedules[j].scheduleType = scheduleType}}

IsDue(schedule) == schedule.isActive /\ schedule.nextRunTime <= now

\* the types processScheduledChronicles would post for when it is triggered
\* again on the store kv at the same instant, every post being accepted
PostedOnRepeat(kv, subredditName) ==
  UNION { {o.val[1][i] : i \in 1..Len(o.val[1])} :
          o \in { p \in processScheduledChronicles(
                          [kv |-> kv, ids |-> 1, faults |-> 0], subredditName,
                          [t \in {"daily", "weekly"} |-> TRUE]) : p.ok } }

\* C28: processScheduledChronicles posts only for schedules that are active
\* and whose nextRunTime is not after now; the lastRunTime and nextRunTime of
\* a schedule change only when its chronicle was posted in the call, the new
\* nextRunTime is strictly after now, and a trigger repeated at once does not
\* post for that schedule again; a due schedule whose chronicle was not
\* generated or not posted is stored as it was and is still due.
C28_ScheduledChronicles ==
  [][ (last'.op = "processScheduledChronicles" /\ steps' = steps + 1) =>
        LET s == last'.sub
            posted == IF last'.val = <<>> THEN {}
                      ELSE {last'.val[1][i] : i \in 1..Len(last'.val[1])}
        IN \A t \in {"daily", "weekly"} :
             LET before == ScheduleOf(redis.schedules[s], t)
                 after  == ScheduleOf(redis'.schedules[s], t)
             IN /\ t \in posted => before # {} /\ \A e \in before : IsDue(e)
                /\ t \in posted => last'.log[t]
                /\ after # before =>
                     /\ t \in posted
                     /\ \A e \in after :
                          /\ "lastRunTime" \in DOMAIN e
                          /\ e.lastRunTime = now
                          /\ e.nextRunTime > now
                          /\ e.isActive
                     /\ t \notin PostedOnRepeat(redis', s)
                /\ (t \notin posted /\ before # {} /\ \A e \in before : IsDue(e)) =>
                     \A e \in after : IsDue(e)
                /\ \A u \in Subs \ {s} : redis'.schedules[u] = redis.schedules[u] ]_vars

\* testsub's daily and weekly schedules were both due at day 1; the daily
\* chronicle was posted and its schedule moved to 9:00 of day 2, the weekly
\* post was refused and its schedule is stored as it was, still due
C28_Witness ==
  /\ last.op = "processScheduledChronicles" /\ last.sub = "testsub"
  /\ last.val = <<<<"daily">>>>
  /\ ~last.log["weekly"]
  /\ now = DAY_MS
  /\ \E e \in ScheduleOf(redis.schedules["testsub"], "daily") :
       /\ "lastRunTime" \in DOMAIN e
       /\ e.lastRunTime = now
       /\ e.nextRunTime = 2 * DAY_MS + 9 * ONE_HOUR_MS
  /\ \E e \in ScheduleOf(redis.schedules["testsub"], "weekly") :
       /\ "lastRunTime" \notin DOMAIN e
       /\ IsDue(e)

----------------------------------------------------------------------------
(* SpecDailyRace: concurrent calls of processDailyGrowth for one subreddit  *)
(* on one day, one step per awaited service call, while store operations    *)
(* fail. A service call retries inside itself; when it throws, the attempt  *)
(* of processDailyGrowth ends and withRetry starts the next one. The read   *)
(* and the write of updateGameState are separate steps.                     *)

MaxDailyRaceRequests == 2
MaxDailyRaceFaults == 9

\* the store after initializeGameState("testsub"), two plants and 3 upvotes
DailyRaceStore ==
  LET fresh == [kv |-> EmptyStore, ids |-> 1, faults |-> 0]
      made == CHOOSE o \in initializeGameState(fresh, "testsub") : o.ok
      played == CHOOSE o \in updateGameState(made.w, "testsub",
                  [seedsPlanted |-> 2, dailyUpvotes |-> 3,
                   totalGrowth |-> 2 * routeGrowthContribution("plant")]) : o.ok
  IN played.w.kv

DailyRequest ==
  [op |-> "processDailyGrowth", sub |-> "testsub", pc |-> "idle", attempt |-> 1,
   tries |-> 1, read |-> <<>>, stats |-> <<>>, updates |-> <<>>, write |-> <<>>,
   res |-> ""]

\* the check that never finds the day processed
alreadyProcessedNever(existingStats) == FALSE

\* if (existingStats) return existingStats
alreadyProcessed(existingStats) == existingStats # None

\* catch of withRetry around processDailyGrowth: the next attempt, or the
\* error after the last one
DailyAttemptFailed(q) ==
  IF q.attempt = maxRetries THEN [q EXCEPT !.pc = "done", !.res = "Error"]
  ELSE [q EXCEPT !.attempt = @ + 1, !.tries = 1, !.pc = "state_get"]

\* catch of withRetry around updateGameState
DailyUpdateFailed(q) ==
  IF q.tries = maxRetries THEN DailyAttemptFailed(q)
  ELSE [q EXCEPT !.tries = @ + 1, !.pc = "update_get"]

\* the store and the fault budget after outcome o, request r becoming q
DailyCommit(r, o, q) ==
  /\ redis' = o.w.kv
  /\ faultsLeft' = o.w.faults
  /\ reqs' = [reqs EXCEPT ![r] = q]
  /\ UNCHANGED <<scheduler, client, nextId, now, last, cdSet, done, steps, limit>>

StartDaily(r) ==
  /\ reqs[r].pc = "idle"
  /\ \A p \in DOMAIN reqs : p < r => reqs[p].pc # "idle"
  /\ reqs' = [reqs EXCEPT ![r].pc = "state_get"]
  /\ UNCHANGED <<scheduler, client, redis, nextId, now, faultsLeft, last, cdSet, done, steps, limit>>

\* const gameState = await redisGameService.getGameState(subredditName)
DailyStateGet(r) ==
  LET q == reqs[r]
  IN /\ q.pc = "state_get"
     /\ \E o \in getGameState(World, q.sub) :
          DailyCommit(r, o,
            IF ~o.ok \/ o.val[1] = None THEN DailyAttemptFailed(q)
            ELSE [q EXCEPT !.read = o.val[1][1], !.pc = "daily_get"])

\* const existingStats = await this.getDailyGrowthStats(subredditName, today)
DailyExisting(r) ==
  LET q == reqs[r]
  IN /\ q.pc = "daily_get"
     /\ \E o \in getDailyGrowthStats(World, q.sub, Today) :
          DailyCommit(r, o,
            IF ~o.ok THEN DailyAttemptFailed(q)
            ELSE IF alreadyProcessed(o.val[1])
                 THEN [q EXCEPT !.pc = "done", !.res = "ok", !.stats = o.val[1][1]]
            ELSE [q EXCEPT !.pc = "count_get"])

\* calculateGrowth, then await redisGameService.getActivePlayerCount
DailyCount(r) ==
  LET q == reqs[r]
      gameState == q.read
      dailyGrowth == calculateGrowth(gameState.seedsPlanted, gameState.spiritsFed,
                                     gameState.robotCharged, gameState.dailyUpvotes)
  IN /\ q.pc = "count_get"
     /\ \E o \in getActivePlayerCount(World, q.sub) :
          DailyCommit(r, o,
            IF ~o.ok THEN DailyAttemptFailed(q)
            ELSE [q EXCEPT !.stats = [date |-> Today,
                                      seedsPlanted |-> gameState.seedsPlanted,
                                      spiritsFed |-> gameState.spiritsFed,
                                      robotCharged |-> gameState.robotCharged,
                                      redditUpvotes |-> gameState.dailyUpvotes,
                                      totalGrowth |-> dailyGrowth,
                                      activePlayerCount |-> o.val[1]],
                             !.pc = "daily_set"])

\* await this.saveDailyGrowthStats, then the updates of the game state
DailySave(r) ==
  LET q == reqs[r]
      newTotalGrowth == q.read.totalGrowth + q.stats.totalGrowth
  IN /\ q.pc = "daily_set"
     /\ \E o \in saveDailyGrowthStats(World, q.sub, Today, q.stats) :
          DailyCommit(r, o,
            IF ~o.ok THEN DailyAttemptFailed(q)
            ELSE [q EXCEPT !.updates =
                             [totalGrowth |-> newTotalGrowth,
                              treeLevel |-> growthCalculateTreeLevel(newTotalGrowth),
                              lastGrowthCalculation |-> now],
                           !.tries = 1,
                           !.pc = "update_get"])

\* updateGameState: await this.getGameState(subredditName), then the merge
DailyUpdateGet(r) ==
  LET q == reqs[r]
  IN /\ q.pc = "update_get"
     /\ \E o \in getGameState(World, q.sub) :
          DailyCommit(r, o,
            IF ~o.ok \/ o.val[1] = None THEN DailyUpdateFailed(q)
            ELSE [q EXCEPT !.write = mergedGameState(o.val[1][1], q.updates),
                           !.pc = "update_set"])

\* updateGameState: await this.saveGameState(updatedState)
DailyUpdateSet(r) ==
  LET q == reqs[r]
  IN /\ q.pc = "update_set"
     /\ \E o \in saveGameState(World, q.write) :
          DailyCommit(r, o,
            IF ~o.ok THEN DailyUpdateFailed(q)
            ELSE [q EXCEPT !.pc = "done", !.res = "ok"])

InitDailyRace ==
  /\ now = 0
  /\ redis = DailyRaceStore
  /\ nextId = 1
  /\ faultsLeft \in 0..MaxDailyRaceFaults
  /\ last = Call("none", "", "", "", 0, "")
  /\ cdSet = [k \in PlayerKeys |-> None]
  /\ done = [s \in Subs |-> [t \in ActionTypes |-> 0]]
  /\ steps = 0
  /\ limit = 0
  /\ reqs = [r \in 1..MaxDailyRaceRequests |-> DailyRequest]
  /\ scheduler = NewScheduler
  /\ client = NoCache

NextDailyRace ==
  \/ \E r \in DOMAIN reqs : StartDaily(r)
  \/ \E r \in DOMAIN reqs : DailyStateGet(r)
  \/ \E r \in DOMAIN reqs : DailyExisting(r)
  \/ \E r \in DOMAIN reqs : DailyCount(r)
  \/ \E r \in DOMAIN reqs : DailySave(r)
  \/ \E r \in DOMAIN reqs : DailyUpdateGet(r)
  \/ \E r \in DOMAIN reqs : DailyUpdateSet(r)

SpecDailyRace == InitDailyRace /\ [][NextDailyRace]_vars

\* the daily growth amount of the day: 2 plants and 3 upvotes, 3.3
DailyAmount ==
  LET gameState == DailyRaceStore.state["testsub"][1]
  IN calculateGrowth(gameState.seedsPlanted, gameState.spiritsFed,
                     gameState.robotCharged, gameState.dailyUpvotes)

\* C29: for a subreddit and a date the daily growth amount is added to
\* totalGrowth at most once: in every state of concurrent processDailyGrowth
\* calls for the date, with store operations failing and being retried, the
\* stored totalGrowth is the initial value or the initial value plus one
\* daily growth amount, and the snapshot of the day holds that amount.
C29_DailyGrowthOnce ==
  LET initial == DailyRaceStore.state["testsub"][1].totalGrowth
  IN /\ DailyAmount > 0
     /\ redis.state["testsub"] # None
     /\ redis.state["testsub"][1].totalGrowth \in {initial, initial + DailyAmount}
     /\ \A d \in redis.daily["testsub"] : d.date = Today /\ d.totalGrowth = DailyAmount
     /\ Cardinality(redis.daily["testsub"]) <= 1

\* both calls resolved, the first one on its second attempt, both have
\* written the game state, and totalGrowth has grown by one daily amount
C29_Witness ==
  /\ \A r \in {1, 2} : reqs[r].pc = "done" /\ reqs[r].res = "ok" /\ reqs[r].write # <<>>
  /\ reqs[1].attempt = 2
  /\ redis.state["testsub"][1].totalGrowth =
       DailyRaceStore.state["testsub"][1].totalGrowth + DailyAmount
  /\ redis.state["testsub"][1].totalGrowth = 630

----------------------------------------------------------------------------
(* SpecContext: the subreddit a request is answered for, for requested      *)
(* names and Devvit contexts of every kind.                                 *)

MaxContextSteps == 2

\* undefined, testsub, ' TestSub ', ab (too short), all (reserved),
\* bad-name (bad character), _abc (bad first character), 22 characters
RequestNames ==
  { <<>>,
    <<"t", "e", "s", "t", "s", "u", "b">>,
    <<" ", "T", "e", "s", "t", "S", "u", "b", " ">>,
    <<"a", "b">>,
    <<"a", "l", "l">>,
    <<"b", "a", "d", "-", "n", "a", "m", "e">>,
    <<"_", "a", "b", "c">>,
    [i \in 1..22 |-> "a"] }

\* the context of othersub, of no subreddit, of the reserved name mod, and
\* the context that throws when it is read
DevvitContexts ==
  { [throws |-> FALSE, subredditName |-> <<"o", "t", "h", "e", "r", "s", "u", "b">>],
    [throws |-> FALSE, subredditName |-> <<>>],
    [throws |-> FALSE, subredditName |-> <<"m", "o", "d">>],
    [throws |-> TRUE, subredditName |-> <<>>] }

ContextSubs == Subs \cup {Join(fallbackSubreddit)}

\* RouteStore, with nothing stored for the fallback subreddit
ContextStore ==
  [f \in DOMAIN RouteStore |->
     IF f \in {"resources", "cooldown"}
     THEN [k \in Users \X ContextSubs |->
             IF k \in PlayerKeys THEN RouteStore[f][k] ELSE None]
     ELSE [s \in ContextSubs |->
             IF s \in Subs THEN RouteStore[f][s]
             ELSE IF f \in {"active", "daily"} THEN {} ELSE <<>>]]

\* POST /api/plant from the validation of the subreddit on: the value is
\* the response
plantRoute(w, username, subredditName, devvit) ==
  LET subredditValidation == getValidatedSubredditContext(subredditName, devvit)
  IN IF ~subredditValidation.isValid THEN Ok(w, "BadRequest")
     ELSE actionRoute(w, username, subredditValidation.subredditName, "plant")

\* last.log holds the requested name and the Devvit context, last.val the
\* result or the response
ContextCall(op, username, subredditName, devvit, val) ==
  [Call(op, username, "", "", 0, "ok")
     EXCEPT !.log = <<subredditName, devvit>>, !.val = <<val>>]

GetValidatedSubredditContext(subredditName, devvit) ==
  /\ steps < limit
  /\ steps' = steps + 1
  /\ last' = ContextCall("getValidatedSubredditContext", "", subredditName, devvit,
                         getValidatedSubredditContext(subredditName, devvit))
  /\ UNCHANGED <<scheduler, client, redis, nextId, now, faultsLeft, cdSet, done, limit, reqs>>

StateRoute(subredditName, devvit) ==
  /\ steps < limit
  /\ \E o \in stateRoute(World, subredditName, devvit, None, None) :
       Commit(o, ContextCall("stateRoute", "", subredditName, devvit, o.val[1]))
  /\ UNCHANGED <<scheduler, client, now, cdSet, done, reqs>>

PlantRoute(u, subredditName, devvit) ==
  /\ steps < limit
  /\ \E o \in plantRoute(World, u, subredditName, devvit) :
       Commit(o, ContextCall("plantRoute", u, subredditName, devvit, o.val[1]))
  /\ UNCHANGED <<scheduler, client, now, cdSet, done, reqs>>

InitContext ==
  /\ now = 0
  /\ redis = ContextStore
  /\ nextId = 1
  /\ faultsLeft = 0
  /\ last = Call("none", "", "", "", 0, "")
  /\ cdSet = [k \in PlayerKeys |-> None]
  /\ done = [s \in Subs |-> [t \in ActionTypes |-> 0]]
  /\ steps = 0
  /\ limit = MaxContextSteps
  /\ reqs = NoReqs
  /\ scheduler = NewScheduler
  /\ client = NoCache

NextContext ==
  \/ \E n \in RequestNames, d \in DevvitContexts : GetValidatedSubredditContext(n, d)
  \/ \E n \in RequestNames, d \in DevvitContexts : StateRoute(n, d)
  \/ \E n \in RequestNames, d \in DevvitContexts : PlantRoute("alice", n, d)

SpecContext == InitContext /\ [][NextContext]_vars

\* the validation rules, of the name trimmed and in lower case: 3 to 21
\* characters, each a lower-case letter, a digit or '_', the first not '_',
\* and not a reserved name
SatisfiesRules(chars) ==
  LET cleanName == toLowerCase(trim(chars))
      allowed == {LowerCase[j] : j \in 1..26} \cup Digits \cup {"_"}
  IN /\ Len(cleanName) >= 3 /\ Len(cleanName) <= 21
     /\ \A i \in 1..Len(cleanName) : cleanName[i] \in allowed
     /\ cleanName[1] # "_"
     /\ Join(cleanName) \notin {"api", "www", "reddit", "admin", "mod", "all", "popular"}

\* the name requested when it satisfies the rules, else the subreddit of the
\* Devvit context when that can be read and satisfies them, else
\* testsubreddit
Replacement(subredditName, devvit) ==
  IF SatisfiesRules(subredditName) THEN subredditName
  ELSE IF ~devvit.throws /\ SatisfiesRules(devvit.subredditName)
       THEN devvit.subredditName
  ELSE <<"t", "e", "s", "t", "s", "u", "b", "r", "e", "d", "d", "i", "t">>

\* C30: getValidatedSubredditContext never reports an invalid subreddit: for
\* every requested name its result has isValid true and the name, trimmed
\* and in lower case, of the requested subreddit when that satisfies the
\* validation rules and else of the Devvit-context subreddit or of the
\* fallback testsubreddit, a name that satisfies the rules; the state route
\* and the plant route never answer 400 for the subreddit name and operate
\* on that subreddit.
C30_NeverInvalidSubreddit ==
  [][ (steps' = steps + 1 /\ last'.op \in {"getValidatedSubredditContext",
                                           "stateRoute", "plantRoute"}) =>
        \A replacement \in {Replacement(last'.log[1], last'.log[2])} :
        \A name \in {Join(toLowerCase(trim(replacement)))} :
        \A answer \in {last'.val[1]} :
           /\ SatisfiesRules(replacement)
           /\ last'.op = "getValidatedSubredditContext" =>
                answer = [isValid |-> TRUE, subredditName |-> name]
           /\ last'.op = "stateRoute" =>
                /\ answer.status = IF redis.state[name] = None THEN 404 ELSE 200
                /\ answer.status = 200 => answer.gameState = redis.state[name][1]
           /\ last'.op = "plantRoute" =>
                /\ answer # "BadRequest"
                /\ answer = "Success" <=>
                     /\ redis.resources[<<last'.user, name>>] # None
                     /\ redis.resources[<<last'.user, name>>][1].cinnamon
                          >= getActionCost("plant")
                     /\ ~OnCooldownNow(<<last'.user, name>>)
                /\ answer = "Success" =>
                     /\ Len(redis'.actions[name]) = Len(redis.actions[name]) + 1
                     /\ redis'.actions[name][1].subredditName = name
                /\ \A s \in ContextSubs \ {name} :
                     /\ redis'.actions[s] = redis.actions[s]
                     /\ redis'.state[s] = redis.state[s] ]_vars

\* alice's plant with the reserved name all, the application running in
\* othersub, succeeded and was recorded in othersub
C30_Witness ==
  /\ last.op = "plantRoute" /\ last.val = <<"Success">>
  /\ last.log[1] = <<"a", "l", "l">>
  /\ last.log[2].subredditName = <<"o", "t", "h", "e", "r", "s", "u", "b">>
  /\ Len(redis.actions["othersub"]) = 1
  /\ redis.actions["othersub"][1].username = "alice"
  /\ redis.actions["testsub"] = <<>>

====
